---- MODULE Spec2Model ----
(***************************************************************************)
(* Demographic-Analysis: the schema normalizer, the demographic classifier, *)
(* the aggregation / gap / heatmap engine and the session's load handlers. *)
(* Column names are strings handled character by character; percentages    *)
(* are exact rationals [n, d] (d > 0) so that rounding is visible.          *)
(***************************************************************************)
EXTENDS Integers, Sequences, FiniteSets, TLC

VARIABLES
    data,            \* st.session_state.data: the raw table last stored, or None
    data_processor,  \* st.session_state.data_processor: a DataProcessor, or None
    uploaded_file,   \* the table held by the st.file_uploader widget, or None
    event,           \* what the last handler run did (shown by st.success / st.error)
    result           \* the value returned by the last analytic call

vars == <<data, data_processor, uploaded_file, event, result>>

\* Python's None, for a variable that otherwise holds a record
None == [none |-> TRUE]
\* the absence of a column name
NoCol == "<none>"

(***************************************************************************)
(* str.lower(), str.strip(), `in` on strings                                *)
(***************************************************************************)
UpperChars == "ABCDEFGHIJKLMNOPQRSTUVWXYZ"
LowerChars == "abcdefghijklmnopqrstuvwxyz"

CharAt(s, i) == SubSeq(s, i, i)

\* the lower-case form of each upper-case letter
LowerOf == [c \in {CharAt(UpperChars, k) : k \in 1..Len(UpperChars)} |->
               CharAt(LowerChars, CHOOSE k \in 1..Len(UpperChars) : CharAt(UpperChars, k) = c)]

LowerChar(c) == IF c \in DOMAIN LowerOf THEN LowerOf[c] ELSE c

RECURSIVE LowerRec(_)
LowerRec(s) ==
    IF Len(s) = 0 THEN ""
    ELSE LowerChar(CharAt(s, 1)) \o LowerRec(SubSeq(s, 2, Len(s)))

\* every column name the tables of this module use
KnownNames ==
    {"Grade", "GRADE ", "Level", "Module", "Lesson Title", "Lesson Activity",
     "EntityDesc", "Component Desc", "Activity", "People", "TOTAL", "Total Score",
     "Female Count", "Notes", "AAM", "Hispanic", "other_m", "LGBTF"}

\* str.lower() of the known names, computed once
LowerMemo == [s \in KnownNames |-> LowerRec(s)]

\* str.lower()
lower(s) == IF s \in KnownNames THEN LowerMemo[s] ELSE LowerRec(s)

RECURSIVE lstrip(_)
lstrip(s) ==
    IF Len(s) > 0 /\ CharAt(s, 1) = " " THEN lstrip(SubSeq(s, 2, Len(s))) ELSE s

RECURSIVE rstrip(_)
rstrip(s) ==
    IF Len(s) > 0 /\ CharAt(s, Len(s)) = " " THEN rstrip(SubSeq(s, 1, Len(s) - 1)) ELSE s

strip(s) == rstrip(lstrip(s))

\* Python's `t in s` for strings
Contains(s, t) ==
    \E i \in 1..(Len(s) - Len(t) + 1) : SubSeq(s, i, i + Len(t) - 1) = t

\* Python's `x in list`
InSeq(x, seq) == \E i \in 1..Len(seq) : seq[i] = x

\* the element of a one-element set; The({e(x) : x \in {v}}) is e(v) with the local
\* variable v evaluated once
The(S) == CHOOSE r \in S : TRUE

Range(seq) == {seq[i] : i \in 1..Len(seq)}

\* sequences of distinct elements of S of length at most n
RECURSIVE SeqsNoRep(_, _)
SeqsNoRep(S, n) ==
    IF n = 0 THEN {<<>>}
    ELSE LET shorter == SeqsNoRep(S, n - 1)
         IN shorter \cup
            UNION {{Append(q, x) : x \in S \ Range(q)} :
                       q \in {r \in shorter : Len(r) = n - 1}}

(***************************************************************************)
(* Numbers. A float is modelled by the exact rational [n, d] it stands for,  *)
(* d > 0; d = 0 is a value numpy produces on division by zero: NaN for       *)
(* n = 0, +inf for n > 0, -inf for n < 0.                                    *)
(***************************************************************************)
RECURSIVE Gcd(_, _)
Gcd(a, b) == IF b = 0 THEN a ELSE Gcd(b, a % b)

\* n / d in lowest terms
Rat(n, d) ==
    IF d = 0 THEN [n |-> IF n > 0 THEN 1 ELSE IF n < 0 THEN -1 ELSE 0, d |-> 0]
    ELSE LET g == Gcd(IF n < 0 THEN -n ELSE n, IF d < 0 THEN -d ELSE d)
         IN IF d < 0 THEN [n |-> (-n) \div g, d |-> (-d) \div g]
            ELSE [n |-> n \div g, d |-> d \div g]

RInt(k) == [n |-> k, d |-> 1]

Sign(k) == IF k > 0 THEN 1 ELSE IF k < 0 THEN -1 ELSE 0

IsNaN(a) == a.d = 0 /\ a.n = 0

IsFinite(a) == a.d # 0

\* a / b for numpy numbers (never raises)
RDiv(a, b) ==
    IF ~IsFinite(a) THEN a
    ELSE IF b.d = 0 THEN (IF IsNaN(b) THEN b ELSE RInt(0))
    ELSE IF b.n = 0 THEN [n |-> Sign(a.n), d |-> 0]
    ELSE Rat(a.n * b.d, a.d * b.n)

RMul(a, b) ==
    IF IsNaN(a) \/ IsNaN(b) THEN [n |-> 0, d |-> 0]
    ELSE IF ~IsFinite(a) \/ ~IsFinite(b) THEN [n |-> Sign(a.n) * Sign(b.n), d |-> 0]
    ELSE Rat(a.n * b.n, a.d * b.d)

RNeg(a) == [n |-> -a.n, d |-> a.d]

RAdd(a, b) ==
    IF IsNaN(a) \/ IsNaN(b) THEN [n |-> 0, d |-> 0]
    ELSE IF ~IsFinite(a) THEN (IF ~IsFinite(b) /\ b.n # a.n THEN [n |-> 0, d |-> 0] ELSE a)
    ELSE IF ~IsFinite(b) THEN b
    ELSE Rat(a.n * b.d + b.n * a.d, a.d * b.d)

RSub(a, b) == RAdd(a, RNeg(b))

RAbs(a) == [n |-> IF a.n < 0 THEN -a.n ELSE a.n, d |-> a.d]

\* ==, <, <= on floats: every comparison with NaN is False
REq(a, b) ==
    IF IsNaN(a) \/ IsNaN(b) THEN FALSE
    ELSE IF ~IsFinite(a) \/ ~IsFinite(b) THEN a.d = b.d /\ Sign(a.n) = Sign(b.n)
    ELSE a.n * b.d = b.n * a.d

RLt(a, b) ==
    IF IsNaN(a) \/ IsNaN(b) THEN FALSE
    ELSE IF ~IsFinite(a) THEN a.n < 0 /\ ~(b.d = 0 /\ b.n < 0)
    ELSE IF ~IsFinite(b) THEN b.n > 0
    ELSE a.n * b.d < b.n * a.d

RLe(a, b) == RLt(a, b) \/ REq(a, b)

\* n / d rounded to the nearest integer, ties to the even one (d > 0)
RoundHalfEven(n, d) ==
    LET q == n \div d
        r == n % d
    IN IF 2 * r < d THEN q
       ELSE IF 2 * r > d THEN q + 1
       ELSE IF q % 2 = 0 THEN q ELSE q + 1

\* round(a, 2), and the value printed by the format :.2f
Round2(a) == IF ~IsFinite(a) THEN a ELSE Rat(RoundHalfEven(a.n * 100, a.d), 100)

\* the value printed by the formats :.1f and :+.1f
Round1(a) == IF ~IsFinite(a) THEN a ELSE Rat(RoundHalfEven(a.n * 10, a.d), 10)

\* (count / total) * 100 for the sums of two integer columns
Percentage(count, total) == RMul(RDiv(RInt(count), RInt(total)), RInt(100))

(***************************************************************************)
(* DataProcessor._validate_data (data_processor.py 21-80)                   *)
(***************************************************************************)
\* the keys of column_mappings, in dict order
RequiredCols == <<"Grade", "EntityDesc", "Component Desc", "TOTAL">>

column_mappings ==
    ("Grade" :> <<"grade", "level", "grade level", "gradelevel">>) @@
    ("EntityDesc" :> <<"entity", "entitydesc", "entity desc", "entity description",
                       "module", "lesson", "title", "content", "lesson title">>) @@
    ("Component Desc" :> <<"component", "componentdesc", "component desc",
                           "component description", "activity", "activity type">>) @@
    ("TOTAL" :> <<"total", "total people", "people", "count", "sum", "total count">>)

available_columns(cols) == [i \in 1..Len(cols) |-> strip(lower(cols[i]))]

\* variation.lower() for every variation of every field
variation_lower == [f \in DOMAIN column_mappings |->
                       [k \in 1..Len(column_mappings[f]) |-> lower(column_mappings[f][k])]]

\* first pass: the first variation (in list order) whose lower-case form equals some
\* lowered, stripped column name; 0 when no variation matches exactly
ExactVariation(av, f) ==
    LET hit(k) == InSeq(variation_lower[f][k], av)
        n == Len(column_mappings[f])
    IN IF \E k \in 1..n : hit(k)
       THEN CHOOSE k \in 1..n : hit(k) /\ \A j \in 1..(k - 1) : ~hit(j)
       ELSE 0

\* next(col for col in df.columns if col.lower().strip() == variation.lower())
ExactColumn(cols, av, f, k) ==
    LET is(i) == av[i] = variation_lower[f][k]
    IN cols[CHOOSE i \in 1..Len(cols) : is(i) /\ \A j \in 1..(i - 1) : ~is(j)]

\* second pass: the first column, in column order, whose lowered, stripped name
\* contains any variation; NoCol when there is none
PartialColumn(cols, av, f) ==
    LET variations == column_mappings[f]
        hit(i) == \E k \in 1..Len(variations) : Contains(av[i], variations[k])
    IN IF \E i \in 1..Len(cols) : hit(i)
       THEN cols[CHOOSE i \in 1..Len(cols) : hit(i) /\ \A j \in 1..(i - 1) : ~hit(j)]
       ELSE NoCol

\* a one-pass matcher: the first column containing any variation, exact or not
MapColumn_SubstringOnly(cols, av, required_col) == PartialColumn(cols, av, required_col)

\* the body of `for required_col, variations in column_mappings.items()`
MapColumn(cols, av, required_col) ==
    LET e == ExactVariation(av, required_col)
    IN IF e # 0 THEN ExactColumn(cols, av, required_col, e)
       ELSE PartialColumn(cols, av, required_col)

\* mapped_columns, with NoCol for a field that was not mapped
mapped_columns(cols) ==
    LET av == available_columns(cols)
    IN [f \in Range(RequiredCols) |-> MapColumn(cols, av, f)]

missing_required(m) == SelectSeq(RequiredCols, LAMBDA f : m[f] = NoCol)

\* rename_dict = {v: k for k, v in mapped_columns.items()}: a later field overwrites
\* an earlier one mapped to the same raw column
rename_dict(m, c) ==
    LET keys == {i \in 1..Len(RequiredCols) : m[RequiredCols[i]] = c}
    IN IF keys = {} THEN c
       ELSE RequiredCols[CHOOSE i \in keys : \A j \in keys : j <= i]

\* df.rename(columns=rename_dict)
rename(m, cols) == [i \in 1..Len(cols) |-> rename_dict(m, cols[i])]

\* position of the first column called name (0 when absent); df[name]
ColIndex(cols, name) ==
    IF InSeq(name, cols)
    THEN CHOOSE i \in 1..Len(cols) : cols[i] = name /\ \A j \in 1..(i - 1) : cols[j] # name
    ELSE 0

\* pd.to_numeric(errors='coerce').fillna(0) on one cell of a numeric column
to_numeric(v) == IF v \in Int THEN v ELSE 0

\* A column of dtype object holds text cells and missing cells (NaN); a frame
\* names such columns in its optional field `dtypes`.
Text(s) == [str |-> s]
NaNCell == [nan |-> TRUE]

is_object_dtype(df, i) == "dtypes" \in DOMAIN df /\ df.dtypes[i] = "object"

DigitValue ==
    [c \in {"0", "1", "2", "3", "4", "5", "6", "7", "8", "9"} |->
        CHOOSE n \in 0..9 : SubSeq("0123456789", n + 1, n + 1) = c]

\* value of a run of decimal digits read after `acc`; -1 when a character is
\* not a digit
RECURSIVE ParseDigits(_, _)
ParseDigits(s, acc) ==
    IF Len(s) = 0 THEN acc
    ELSE IF CharAt(s, 1) \in DOMAIN DigitValue
         THEN ParseDigits(SubSeq(s, 2, Len(s)), 10 * acc + DigitValue[CharAt(s, 1)])
         ELSE -1

\* the numeric parser behind pd.to_numeric for a text cell holding an integer:
\* surrounding blanks skipped, one optional sign, then digits only
parse_number_Unsigned(s) ==
    The({IF Len(t) > 0 /\ ParseDigits(t, 0) >= 0
         THEN [ok |-> TRUE, value |-> ParseDigits(t, 0)]
         ELSE [ok |-> FALSE] : t \in {strip(s)}})
parse_number(s) ==
    The({IF Len(t) > 0 /\ CharAt(t, 1) \in {"-", "+"}
         THEN (IF Len(t) > 1 /\ ParseDigits(SubSeq(t, 2, Len(t)), 0) >= 0
               THEN [ok |-> TRUE,
                     value |-> IF CharAt(t, 1) = "-"
                               THEN 0 - ParseDigits(SubSeq(t, 2, Len(t)), 0)
                               ELSE ParseDigits(SubSeq(t, 2, Len(t)), 0)]
               ELSE [ok |-> FALSE])
         ELSE IF Len(t) > 0 /\ ParseDigits(t, 0) >= 0
              THEN [ok |-> TRUE, value |-> ParseDigits(t, 0)]
              ELSE [ok |-> FALSE] : t \in {strip(s)}})

\* errors='coerce': a cell that does not parse, or is missing, becomes NaN
coerce(c) == IF "nan" \in DOMAIN c THEN [ok |-> FALSE] ELSE parse_number(c.str)

\* Series.fillna(value) on one coerced cell
fillna(p, value) == IF p.ok THEN p.value ELSE value

\* self.df['TOTAL'] = pd.to_numeric(self.df['TOTAL'], errors='coerce').fillna(0),
\* cell v of column i
total_cell(df, i, v) ==
    IF is_object_dtype(df, i) THEN fillna(coerce(v), 0) ELSE to_numeric(v)

\* the ValueError raised when a required column is not mapped
error_msg(m, cols) ==
    [missing     |-> missing_required(m),
     available   |-> cols,
     suggestions |-> [f \in Range(missing_required(m)) |->
                         SubSeq(column_mappings[f], 1, 3)]]

\* _validate_data from the point where mapped_columns (m) is complete
ValidateMapped(m, df) ==
    IF missing_required(m) # <<>>
    THEN [raised |-> TRUE, error |-> error_msg(m, df.cols)]
    ELSE The({[raised      |-> FALSE,
               original_df |-> df,
               df |-> [cols |-> newcols,
                       rows |-> [r \in 1..Len(df.rows) |->
                                   [i \in 1..Len(newcols) |->
                                       IF i = ColIndex(newcols, "TOTAL")
                                       THEN total_cell(df, i, df.rows[r][i])
                                       ELSE df.rows[r][i]]]]] :
              newcols \in {rename(m, df.cols)}})

\* DataProcessor(df): __init__ followed by _validate_data; `mapped` records the
\* local mapped_columns the call ended with
Construct(df) ==
    The({[mapped |-> m, proc |-> ValidateMapped(m, df)] : m \in {mapped_columns(df.cols)}})

DataProcessor(df) == Construct(df).proc

(***************************************************************************)
(* DataProcessor.get_demographic_columns (data_processor.py 122-173)        *)
(***************************************************************************)
approved_demographic_patterns ==
    <<"AAM", "AAF", "PCM", "PCF", "LGBTF", "OTHER_M", "OTHER_F",
      "ASM", "ASF", "HM", "HF", "NAM", "NAF", "PIM", "PIF",
      "LEGACY_M", "LEGACY_F", "PC_M", "PC_F",
      "african american male", "african american female", "african american",
      "asian male", "asian female", "asian",
      "caucasian male", "caucasian female", "caucasian", "white",
      "hispanic male", "hispanic female", "hispanic", "latino", "latina",
      "native american male", "native american female", "native american",
      "pacific islander male", "pacific islander female", "pacific islander",
      "lgbt", "lgbtq", "lgbtf", "lgbt female", "lgbt male",
      "legacy", "legacy male", "legacy female",
      "physically challenged", "physically challenged male",
      "physically challenged female",
      "other", "other male", "other female",
      "male", "female">>

exclude_patterns ==
    <<"total", "grade", "entity", "component", "desc", "description",
      "id", "name", "date", "time", "page", "folio", "number", "count",
      "row", "index", "file", "path", "url", "link", "reference",
      "score", "rating", "level", "category", "type", "status">>

\* any(exclude in col_lower for exclude in exclude_patterns)
Excluded(col_lower) ==
    \E k \in 1..Len(exclude_patterns) : Contains(col_lower, exclude_patterns[k])

\* pattern.lower() for every approved pattern
approved_lower == [k \in 1..Len(approved_demographic_patterns) |->
                      lower(approved_demographic_patterns[k])]

\* the inner for/break loop over approved_demographic_patterns
Approved(col_lower) ==
    \E k \in 1..Len(approved_lower) : Contains(col_lower, approved_lower[k])

\* the whitelist consulted before the exclusion list
ClassifyStep_InclusionFirst(demographic_cols, col) ==
    LET col_lower == strip(lower(col))
    IN IF Approved(col_lower) THEN Append(demographic_cols, col)
       ELSE demographic_cols

\* the loop body for one column: `continue` on exclusion, append on a pattern match
ClassifyStep(demographic_cols, col) ==
    LET col_lower == strip(lower(col))
    IN IF Excluded(col_lower) THEN demographic_cols
       ELSE IF Approved(col_lower) THEN Append(demographic_cols, col)
       ELSE demographic_cols

RECURSIVE ClassifyLoop(_, _, _)
ClassifyLoop(cols, i, demographic_cols) ==
    IF i > Len(cols) THEN demographic_cols
    ELSE ClassifyLoop(cols, i + 1, ClassifyStep(demographic_cols, cols[i]))

get_demographic_columns(proc) == ClassifyLoop(proc.df.cols, 1, <<>>)

(***************************************************************************)
(* Tables the handlers are given                                            *)
(***************************************************************************)
MaxCols == 4        \* raw header lists have at most this many columns
MaxExtraCols == 3   \* columns following the four canonical ones
MaxLoadRows == 2    \* rows of a table in the load scenarios

\* a table with header h and n rows; every cell holds 1
Filled(h, n) == [cols |-> h, rows |-> [r \in 1..n |-> [i \in 1..Len(h) |-> 1]]]

\* pd.DataFrame(): no columns, no rows
EmptyDataFrame == [cols |-> <<>>, rows |-> <<>>]

CanonicalHeader == <<"Grade", "EntityDesc", "Component Desc", "TOTAL">>

\* raw column names met by the normalizer
SchemaPool ==
    {"Grade", "GRADE ", "Module", "Lesson Title", "Lesson Activity",
     "Component Desc", "TOTAL", "Total Score", "AAM"}

\* column names met by the classifier after the canonical four
ExtraPool ==
    {"AAM", "Hispanic", "other_m", "Total Score", "Female Count", "Notes"}

SchemaTables ==
    {Filled(h, 1) : h \in SeqsNoRep(SchemaPool, MaxCols)} \cup
    {Filled(CanonicalHeader \o x, 1) : x \in SeqsNoRep(ExtraPool, MaxExtraCols)}

LoadHeaders ==
    {<<"Grade", "EntityDesc", "Component Desc", "AAM", "TOTAL">>,
     <<"Level", "Lesson Title", "Activity", "People">>,
     <<"Grade", "Lesson Activity", "TOTAL">>,
     <<"Grade", "AAM", "TOTAL">>,
     <<"Notes">>}

LoadTables == {Filled(h, n) : h \in LoadHeaders, n \in 1..MaxLoadRows}

\* what DatabaseManager.load_dataset_data can return: the canonical columns
\* (and the stored demographic ones), or an empty frame for a dataset without records
DbTables ==
    {EmptyDataFrame} \cup
    {Filled(<<"Grade", "EntityDesc", "Component Desc", "TOTAL">> \o x, n) :
         x \in {<<>>, <<"AAM">>}, n \in 1..MaxLoadRows}

(***************************************************************************)
(* Session state and the load handlers (app.py 99-109, 164-174, 180-267,    *)
(* 1433-1446)                                                               *)
(***************************************************************************)
\* no analytic call has returned yet
NoResult == [op |-> "none"]

NoEvent == [handler |-> "init", outcome |-> "none", mapped |-> <<>>]

InitSession ==
    /\ data = None
    /\ data_processor = None
    /\ uploaded_file = None
    /\ event = NoEvent
    /\ result = NoResult

\* the body of `if uploaded_file is not None:` run on table t (app.py 180-267)
UploadHandler(t) ==
    \E c \in {Construct(t)} :
        IF c.proc.raised
        THEN /\ data' = None
             /\ data_processor' = None
             /\ event' = [handler |-> "upload", outcome |-> "schema_error",
                          mapped |-> c.mapped, error |-> c.proc.error]
        ELSE /\ data_processor' = c.proc
             /\ data' = t
             /\ event' = [handler |-> "upload", outcome |-> "ok", mapped |-> c.mapped]

\* the user puts a file in the uploader; the script runs
Upload(t) ==
    /\ uploaded_file' = t
    /\ UploadHandler(t)
    /\ result' = NoResult

\* pd.read_excel raises on the chosen file (app.py 184, 236-267)
UploadReadError(t) ==
    /\ uploaded_file' = t
    /\ data' = None
    /\ data_processor' = None
    /\ event' = [handler |-> "upload", outcome |-> "other_error", mapped |-> <<>>]
    /\ result' = NoResult

\* any later run of the script while the uploader still holds a file
Rerun ==
    /\ uploaded_file # None
    /\ event.outcome # "other_error"
    /\ UploadHandler(uploaded_file)
    /\ UNCHANGED <<uploaded_file, result>>

\* the try block with the two assignments in the other order
DbLoadHandler_DataFirst(name, df) ==
    \E c \in {Construct(df)} :
        IF c.proc.raised
        THEN /\ data' = df
             /\ UNCHANGED data_processor
             /\ event' = [handler |-> name, outcome |-> "schema_error",
                          mapped |-> c.mapped, error |-> c.proc.error]
        ELSE /\ data_processor' = c.proc
             /\ data' = df
             /\ event' = [handler |-> name, outcome |-> "ok", mapped |-> c.mapped]
\* the try block shared by both database load buttons
DbLoadHandler(name, df) ==
    \E c \in {Construct(df)} :
        IF c.proc.raised
        THEN /\ UNCHANGED <<data, data_processor>>
             /\ event' = [handler |-> name, outcome |-> "schema_error",
                          mapped |-> c.mapped, error |-> c.proc.error]
        ELSE /\ data_processor' = c.proc
             /\ data' = df
             /\ event' = [handler |-> name, outcome |-> "ok", mapped |-> c.mapped]

\* sidebar "Load Dataset" (app.py 164-174); the uploader is not shown in this mode
LoadDataset(df) ==
    /\ uploaded_file' = None
    /\ DbLoadHandler("load_dataset", df)
    /\ result' = NoResult

\* "Manage datasets" Load button (app.py 1433-1446), inside the analysis section
ManageLoad(df) ==
    /\ data # None /\ data_processor # None
    /\ DbLoadHandler("manage_load", df)
    /\ UNCHANGED uploaded_file
    /\ result' = NoResult

\* db_manager.load_dataset_data itself raises
DbLoadError ==
    /\ event' = [handler |-> "load_dataset", outcome |-> "other_error", mapped |-> <<>>]
    /\ uploaded_file' = None
    /\ UNCHANGED <<data, data_processor, result>>

NextLoad ==
    \/ \E t \in LoadTables : Upload(t)
    \/ \E t \in LoadTables : UploadReadError(t)
    \/ Rerun
    \/ \E df \in DbTables : LoadDataset(df)
    \/ \E df \in DbTables : ManageLoad(df)
    \/ DbLoadError

SpecLoad == InitSession /\ [][NextLoad]_vars

(***************************************************************************)
(* The normalizer applied to tables whose Total column holds text, missing  *)
(* or negative cells                                                        *)
(***************************************************************************)
CoerceHeader == <<"Grade", "Module", "Component Desc", "AAM", "Total">>

\* cells of a Total column that pandas read as dtype object
ObjectCells ==
    {Text("12"), Text(" 7 "), Text("-3"), Text("+5"), Text("n/a"), Text("1,200"),
     Text(""), NaNCell}

\* rows of a table whose Total column is numeric
NumericRows == {<<"K", "Lesson A", "Video", a, t>> : a \in {-1, 2}, t \in {-2, 0, 5}}

ObjectRows == {<<Text("K"), Text("Lesson A"), Text("Video"), 2, c>> : c \in ObjectCells}

CoerceTables ==
    {[cols |-> CoerceHeader, rows |-> rows] :
        rows \in UNION {[1..n -> NumericRows] : n \in 1..MaxLoadRows}} \cup
    {[cols |-> CoerceHeader, rows |-> rows,
      dtypes |-> <<"object", "object", "object", "int64", "object">>] :
        rows \in UNION {[1..n -> ObjectRows] : n \in 1..MaxLoadRows}}

InitCoerce ==
    /\ uploaded_file \in CoerceTables
    /\ data = None
    /\ data_processor = None
    /\ event = NoEvent
    /\ result = NoResult

NextCoerce == Rerun

SpecCoerce == InitCoerce /\ [][NextCoerce]_vars

(***************************************************************************)
(* The normalizer and the classifier applied to one uploaded table          *)
(***************************************************************************)
InitSchema ==
    /\ uploaded_file \in SchemaTables
    /\ data = None
    /\ data_processor = None
    /\ event = NoEvent
    /\ result = NoResult

\* processor.get_demographic_columns() (app.py 352)
GetDemographicColumns ==
    /\ data # None /\ data_processor # None
    /\ result' = [op |-> "get_demographic_columns",
                  value |-> get_demographic_columns(data_processor)]
    /\ UNCHANGED <<data, data_processor, uploaded_file, event>>

NextSchema ==
    \/ Rerun
    \/ GetDemographicColumns

SpecSchema == InitSchema /\ [][NextSchema]_vars

\* the normalizer has run on the uploaded table
Validated == event.handler = "upload" /\ event.outcome \in {"ok", "schema_error"}

\* field f has an exact or a substring match among the raw column names
HasExact(low, f) ==
    \E i \in 1..Len(low), k \in 1..Len(column_mappings[f]) : low[i] = variation_lower[f][k]

HasSubstring(low, f) ==
    \E i \in 1..Len(low), k \in 1..Len(column_mappings[f]) :
        Contains(low[i], column_mappings[f][k])

\* C4: normalization raises the schema-mapping error exactly when some canonical
\* field has neither an exact nor a substring match among the raw column names, and
\* whenever it does not raise the resulting table holds all four canonical columns.
C4_FailsOrCanonical ==
    Validated =>
        LET cols == uploaded_file.cols
            low == [i \in 1..Len(cols) |-> strip(lower(cols[i]))]
        IN /\ (event.outcome = "schema_error") <=>
                  (\E f \in Range(RequiredCols) :
                       ~HasExact(low, f) /\ ~HasSubstring(low, f))
           /\ (event.outcome = "ok") =>
                  \A f \in Range(RequiredCols) : InSeq(f, data_processor.df.cols)

\* C5: a load that fails with the schema-mapping error leaves the session's data
\* and data_processor as they were before it.
C5_FailedLoadKeepsPrevious ==
    [][event'.outcome = "schema_error" => UNCHANGED <<data, data_processor>>]_vars

\* columns whose lowered, stripped name (low) equals the k-th variant of field f
ExactIdx(low, f, k) == {i \in 1..Len(low) : low[i] = variation_lower[f][k]}

\* columns whose lowered, stripped name (low) contains some variant of field f
SubstringIdx(low, f) ==
    {i \in 1..Len(low) : \E k \in 1..Len(column_mappings[f]) :
                             Contains(low[i], column_mappings[f][k])}

\* C6: matching is two-pass. A field with an exactly matching column is mapped to a
\* column matching the earliest such variant, never to one that only contains a
\* variant; otherwise it is mapped to the first column, in column order, containing
\* a variant. A raw column 'Lesson Title' is mapped to the Module field.
C6_TwoPassMatching ==
    Validated =>
        LET cols == uploaded_file.cols
            low == [i \in 1..Len(cols) |-> strip(lower(cols[i]))]
        IN /\ \A f \in Range(RequiredCols) :
                LET exactK == {k \in 1..Len(column_mappings[f]) : ExactIdx(low, f, k) # {}}
                    subI == SubstringIdx(low, f)
                IN /\ exactK # {} =>
                          \E k \in exactK :
                              /\ \A j \in exactK : k <= j
                              /\ \E i \in ExactIdx(low, f, k) : event.mapped[f] = cols[i]
                   /\ (exactK = {} /\ subI # {}) =>
                          \E i \in subI :
                              /\ \A j \in subI : i <= j
                              /\ event.mapped[f] = cols[i]
           /\ (/\ InSeq("Lesson Title", cols)
               /\ \A k \in 1..Len(column_mappings["EntityDesc"]) :
                      ExactIdx(low, "EntityDesc", k) # {} =>
                          column_mappings["EntityDesc"][k] = "lesson title")
                  => event.mapped["EntityDesc"] = "Lesson Title"

\* an exact match chosen although an earlier column contains a variant, and
\* 'Lesson Title' mapped to the Module field
C6_Witness ==
    /\ Validated
    /\ event.mapped["EntityDesc"] = "Lesson Title"
    /\ event.mapped["TOTAL"] = "TOTAL"
    /\ ColIndex(uploaded_file.cols, "Total Score") > 0
    /\ ColIndex(uploaded_file.cols, "Total Score") < ColIndex(uploaded_file.cols, "TOTAL")

\* C7: get_demographic_columns returns, in the table's column order, exactly the
\* columns whose lowered name contains no exclusion token and some whitelist token;
\* 'Total Score' is never classified.
C7_ClassifierFilter ==
    result.op = "get_demographic_columns" =>
        LET cols == data_processor.df.cols
            keep(c) ==
                LET low == strip(lower(c))
                IN /\ ~\E k \in 1..Len(exclude_patterns) :
                           Contains(low, exclude_patterns[k])
                   /\ \E k \in 1..Len(approved_demographic_patterns) :
                           Contains(low, approved_lower[k])
        IN /\ result.value = SelectSeq(cols, keep)
           /\ ~InSeq("Total Score", result.value)

\* a column with both a whitelist and an exclusion token is left out, and the two
\* classified columns keep their (non-alphabetical) table order
C7_Witness ==
    /\ result.op = "get_demographic_columns"
    /\ InSeq("Female Count", data_processor.df.cols)
    /\ result.value = <<"other_m", "AAM">>

(***************************************************************************)
(* pandas operations on a table [cols, rows] used by the analytics          *)
(***************************************************************************)
\* characters in code-point order, for the comparison of strings
CodeChars == " +-.0123456789:<>ABCDEFGHIJKLMNOPQRSTUVWXYZ_abcdefghijklmnopqrstuvwxyz"

Code == [c \in {CharAt(CodeChars, k) : k \in 1..Len(CodeChars)} |->
            CHOOSE k \in 1..Len(CodeChars) : CharAt(CodeChars, k) = c]

\* s < t for Python strings
RECURSIVE StrLt(_, _)
StrLt(s, t) ==
    IF Len(t) = 0 THEN FALSE
    ELSE IF Len(s) = 0 THEN TRUE
    ELSE IF CharAt(s, 1) = CharAt(t, 1) THEN StrLt(SubSeq(s, 2, Len(s)), SubSeq(t, 2, Len(t)))
    ELSE Code[CharAt(s, 1)] < Code[CharAt(t, 1)]

\* col in df.columns
HasColumn(df, name) == InSeq(name, df.cols)

\* df.empty: no rows or no columns
IsEmpty(df) == Len(df.rows) = 0 \/ Len(df.cols) = 0

\* df[name] at row r
Cell(df, r, name) == df.rows[r][ColIndex(df.cols, name)]

\* df[df[name] == v]
WhereEq(df, name, v) ==
    [cols |-> df.cols,
     rows |-> SelectSeq(df.rows, LAMBDA row : row[ColIndex(df.cols, name)] = v)]

\* df[name].sum()
RECURSIVE SumRows(_, _, _)
SumRows(rows, k, r) ==
    IF r > Len(rows) THEN 0 ELSE rows[r][k] + SumRows(rows, k, r + 1)

Sum(df, name) == SumRows(df.rows, ColIndex(df.cols, name), 1)

\* df[name].unique(): the distinct values in order of first appearance
RECURSIVE UniqueRec(_, _, _, _)
UniqueRec(rows, k, r, seen) ==
    IF r > Len(rows) THEN seen
    ELSE UniqueRec(rows, k, r + 1,
                   IF InSeq(rows[r][k], seen) THEN seen ELSE Append(seen, rows[r][k]))

unique(df, name) == UniqueRec(df.rows, ColIndex(df.cols, name), 1, <<>>)

\* insertion of x into the ascending sequence of strings seq
RECURSIVE InsertSorted(_, _)
InsertSorted(seq, x) ==
    IF Len(seq) = 0 THEN <<x>>
    ELSE IF StrLt(x, seq[1]) THEN <<x>> \o seq
    ELSE <<seq[1]>> \o InsertSorted(Tail(seq), x)

RECURSIVE SortStrings(_)
SortStrings(seq) ==
    IF Len(seq) = 0 THEN <<>>
    ELSE InsertSorted(SortStrings(SubSeq(seq, 1, Len(seq) - 1)), seq[Len(seq)])

\* the group keys of df.groupby(name): the distinct values, sorted
groupby(df, name) == SortStrings(unique(df, name))

\* dict.get(key, default)
Get(dict, key, default) == IF key \in DOMAIN dict THEN dict[key] ELSE default

\* s[:n] + "..." if len(s) > n else s
Truncate(s, n) == IF Len(s) > n THEN SubSeq(s, 1, n) \o "..." ELSE s

(***************************************************************************)
(* Targets                                                                  *)
(***************************************************************************)
\* DataProcessor.get_default_demographic_targets
get_default_demographic_targets ==
    ("male" :> RInt(50)) @@
    ("female" :> RInt(50)) @@
    ("african american" :> RInt(12)) @@
    ("african american male" :> RInt(6)) @@
    ("african american female" :> RInt(6)) @@
    ("aam" :> RInt(6)) @@
    ("aaf" :> RInt(6)) @@
    ("hispanic" :> RInt(18)) @@
    ("hispanic male" :> RInt(9)) @@
    ("hispanic female" :> RInt(9)) @@
    ("hm" :> RInt(9)) @@
    ("hf" :> RInt(9)) @@
    ("asian" :> RInt(6)) @@
    ("asian male" :> RInt(3)) @@
    ("asian female" :> RInt(3)) @@
    ("asm" :> RInt(3)) @@
    ("asf" :> RInt(3)) @@
    ("caucasian" :> RInt(60)) @@
    ("caucasian male" :> RInt(30)) @@
    ("caucasian female" :> RInt(30)) @@
    ("pcm" :> RInt(30)) @@
    ("pcf" :> RInt(30)) @@
    ("white" :> RInt(60)) @@
    ("native american" :> RInt(1)) @@
    ("native american male" :> Rat(1, 2)) @@
    ("native american female" :> Rat(1, 2)) @@
    ("nam" :> Rat(1, 2)) @@
    ("naf" :> Rat(1, 2)) @@
    ("pacific islander" :> Rat(1, 2)) @@
    ("pacific islander male" :> Rat(1, 4)) @@
    ("pacific islander female" :> Rat(1, 4)) @@
    ("pim" :> Rat(1, 4)) @@
    ("pif" :> Rat(1, 4)) @@
    ("lgbt" :> RInt(7)) @@
    ("lgbtf" :> RInt(7)) @@
    ("lgbtq" :> RInt(7)) @@
    ("legacy" :> RInt(5)) @@
    ("legacy male" :> Rat(5, 2)) @@
    ("legacy female" :> Rat(5, 2)) @@
    ("physically challenged" :> RInt(2)) @@
    ("pc_m" :> RInt(1)) @@
    ("pc_f" :> RInt(1)) @@
    ("other" :> RInt(3)) @@
    ("other male" :> Rat(3, 2)) @@
    ("other female" :> Rat(3, 2)) @@
    ("other_m" :> Rat(3, 2)) @@
    ("other_f" :> Rat(3, 2))

\* targets.get(demo_col.lower(), targets.get(demo_col, default))
TargetLookup(targets, demo_col, default) ==
    Get(targets, lower(demo_col), Get(targets, demo_col, default))

\* the value a target input starts with:
\* default_targets.get(demo_lower) or default_targets.get(demo_col) or 10.0
default_value(demo_col) ==
    LET d == get_default_demographic_targets
        a == Get(d, lower(demo_col), RInt(0))
        b == Get(d, demo_col, RInt(0))
    IN IF a.n # 0 THEN a ELSE IF b.n # 0 THEN b ELSE RInt(10)

\* target_demographics as the target inputs build it for the selected columns
ConfiguredTargets(selected, edits) ==
    [c \in Range(selected) |-> IF c \in DOMAIN edits THEN edits[c] ELSE default_value(c)]

\* {col: st.session_state.get(f"target_{col}", 10.0) for col in demographic_cols}:
\* only the inputs shown for the selected columns are in the session state
ExportTargets(demographic_cols, selected, edits) ==
    [c \in Range(demographic_cols) |->
        IF c \in Range(selected) THEN ConfiguredTargets(selected, edits)[c] ELSE RInt(10)]

(***************************************************************************)
(* DataProcessor: aggregation. A returned DataFrame is the sequence of its  *)
(* rows, each row a function from column names to values.                   *)
(***************************************************************************)
RECURSIVE Flatten(_)
Flatten(seqs) == IF Len(seqs) = 0 THEN <<>> ELSE seqs[1] \o Flatten(Tail(seqs))

\* insertion of x into seq, ascending in .key, after the entries with an equal key
RECURSIVE InsertByKey(_, _)
InsertByKey(seq, x) ==
    IF Len(seq) = 0 THEN <<x>>
    ELSE IF RLt(x.key, seq[1].key) THEN <<x>> \o seq
    ELSE <<seq[1]>> \o InsertByKey(Tail(seq), x)

RECURSIVE SortByKey(_)
SortByKey(seq) ==
    IF Len(seq) = 0 THEN <<>>
    ELSE InsertByKey(SortByKey(SubSeq(seq, 1, Len(seq) - 1)), seq[Len(seq)])

\* DataFrame(rows).sort_values(name, ascending): a stable sort of the rows
sort_values(rows, name, ascending) ==
    LET keyed == [i \in 1..Len(rows) |->
                    [key |-> IF ascending THEN rows[i][name] ELSE RNeg(rows[i][name]),
                     row |-> rows[i]]]
        sorted == SortByKey(keyed)
    IN [i \in 1..Len(sorted) |-> sorted[i].row]

\* the (EntityDesc, Grade) groups of df.groupby(['EntityDesc', 'Grade'])
module_grade_groups(df) ==
    Flatten([i \in 1..Len(groupby(df, "EntityDesc")) |->
        LET e == groupby(df, "EntityDesc")[i]
            grades == groupby(WhereEq(df, "EntityDesc", e), "Grade")
        IN [j \in 1..Len(grades) |-> <<e, grades[j]>>]])

calculate_module_totals(df) ==
    IF IsEmpty(df) THEN <<>>
    ELSE LET groups == module_grade_groups(df)
             module_totals == [i \in 1..Len(groups) |->
                 ("EntityDesc" :> groups[i][1]) @@ ("Grade" :> groups[i][2]) @@
                 ("Total People" :>
                     RInt(Sum(WhereEq(WhereEq(df, "EntityDesc", groups[i][1]),
                                      "Grade", groups[i][2]), "TOTAL")))]
         IN sort_values(module_totals, "Total People", FALSE)

\* the modules calculate_demographic_percentages reports, with no guard on the total
percentage_entities_Unguarded(df) == unique(df, "EntityDesc")

\* the modules calculate_demographic_percentages reports
percentage_entities(df) ==
    SelectSeq(unique(df, "EntityDesc"),
              LAMBDA entity : /\ ~IsEmpty(WhereEq(df, "EntityDesc", entity))
                              /\ Sum(WhereEq(df, "EntityDesc", entity), "TOTAL") # 0)

calculate_demographic_percentages(proc, df) ==
    LET demographic_cols == get_demographic_columns(proc)
    IN IF Len(demographic_cols) = 0 \/ IsEmpty(df) THEN <<>>
       ELSE LET entities == percentage_entities(df)
            IN [i \in 1..Len(entities) |->
                 LET entity_data == WhereEq(df, "EntityDesc", entities[i])
                     total_people == Sum(entity_data, "TOTAL")
                 IN ("EntityDesc" :> entities[i]) @@
                    [demo_col \in Range(demographic_cols) |->
                       IF HasColumn(entity_data, demo_col)
                       THEN Round2(IF total_people > 0
                                   THEN Percentage(Sum(entity_data, demo_col), total_people)
                                   ELSE RInt(0))
                       ELSE RInt(0)]]

\* the {demo_col}_Count and {demo_col}_Percentage entries of an aggregate row
aggregate_fields(group, demographic_cols, total_people) ==
    LET present == {c \in Range(demographic_cols) : HasColumn(group, c)}
    IN [k \in {c \o "_Count" : c \in present} \cup {c \o "_Percentage" : c \in present} |->
          LET c == CHOOSE x \in present : k \in {x \o "_Count", x \o "_Percentage"}
          IN IF k = c \o "_Count" THEN Sum(group, c)
             ELSE Percentage(Sum(group, c), total_people)]

calculate_demographic_trends(proc, df) ==
    LET demographic_cols == get_demographic_columns(proc)
    IN IF Len(demographic_cols) = 0 THEN <<>>
       ELSE Flatten([i \in 1..Len(unique(df, "Grade")) |->
              LET grade == unique(df, "Grade")[i]
                  grade_data == WhereEq(df, "Grade", grade)
                  entities == SelectSeq(unique(grade_data, "EntityDesc"),
                      LAMBDA e : Sum(WhereEq(grade_data, "EntityDesc", e), "TOTAL") # 0)
              IN [j \in 1..Len(entities) |->
                   LET entity_data == WhereEq(grade_data, "EntityDesc", entities[j])
                       total_people == Sum(entity_data, "TOTAL")
                   IN ("Grade" :> grade) @@ ("EntityDesc" :> entities[j]) @@
                      ("Total_People" :> total_people) @@
                      aggregate_fields(entity_data, demographic_cols, total_people)]])

\* one summary of calculate_grade_comparisons: a row per value of column by
summary(df, demographic_cols, by, label) ==
    LET kept == SelectSeq(unique(df, by), LAMBDA v : Sum(WhereEq(df, by, v), "TOTAL") # 0)
    IN [i \in 1..Len(kept) |->
          LET group == WhereEq(df, by, kept[i])
              total_people == Sum(group, "TOTAL")
          IN (label :> kept[i]) @@ ("Total_People" :> total_people) @@
             aggregate_fields(group, demographic_cols, total_people)]

calculate_grade_comparisons(proc, df) ==
    LET demographic_cols == get_demographic_columns(proc)
    IN IF Len(demographic_cols) = 0 THEN <<>>
       ELSE [grade_summary |-> summary(df, demographic_cols, "Grade", "Grade"),
             component_summary |-> summary(df, demographic_cols, "Component Desc", "Component")]

\* the mean of a non-empty sequence of numbers
RECURSIVE RSum(_)
RSum(seq) == IF Len(seq) = 0 THEN RInt(0) ELSE RAdd(seq[1], RSum(Tail(seq)))

mean(seq) == RDiv(RSum(seq), RInt(Len(seq)))

\* the logarithm and the square root are kept symbolic: the Shannon index is
\* given by the proportions it sums -p * log(p) over, and the representation
\* balance 1 / (1 + cv) by the square of cv
calculate_diversity_metrics(proc, df) ==
    LET demographic_cols == get_demographic_columns(proc)
        total_people == Sum(df, "TOTAL")
        present == SelectSeq(demographic_cols, LAMBDA c : HasColumn(df, c))
        proportion == [i \in 1..Len(present) |->
                         RDiv(RInt(Sum(df, present[i])), RInt(total_people))]
        demo_percentages == [i \in 1..Len(present) |-> RMul(proportion[i], RInt(100))]
        mean_percentage == mean(demo_percentages)
        variance == mean([i \in 1..Len(present) |->
                      RMul(RSub(demo_percentages[i], mean_percentage),
                           RSub(demo_percentages[i], mean_percentage))])
    IN IF Len(demographic_cols) = 0 THEN <<>>
       ELSE IF total_people = 0 THEN <<>>
       ELSE ("simpson_diversity_index" :>
                RSub(RInt(1), RSum([i \in 1..Len(present) |-> RMul(proportion[i], proportion[i])]))) @@
            ("shannon_diversity_index" :>
                [proportions |-> SelectSeq(proportion, LAMBDA q : RLt(RInt(0), q))]) @@
            (IF Len(present) > 0
             THEN ("representation_balance" :>
                     [cv_squared |-> IF RLt(RInt(0), mean_percentage)
                                     THEN RDiv(variance, RMul(mean_percentage, mean_percentage))
                                     ELSE RInt(0)])
             ELSE <<>>)

(***************************************************************************)
(* Gap computations. A call returns [raised |-> FALSE, value |-> v] or      *)
(* [raised |-> TRUE, error |-> e] when an exception leaves it.              *)
(***************************************************************************)
Returned(v) == [raised |-> FALSE, value |-> v]

Raised(e) == [raised |-> TRUE, error |-> e]

\* DataFrame(rows).sort_values(name): a frame built from no rows has no columns
sort_frame(rows, name, ascending) ==
    IF Len(rows) = 0 THEN Raised("KeyError") ELSE Returned(sort_values(rows, name, ascending))

\* 'Over Target' if gap > 0 else 'Under Target' if gap < 0 else 'On Target'
gap_status(gap) ==
    IF RLt(RInt(0), gap) THEN "Over Target"
    ELSE IF RLt(gap, RInt(0)) THEN "Under Target" ELSE "On Target"

calculate_demographic_gaps(proc, df, targets) ==
    LET demographic_cols == get_demographic_columns(proc)
        total_people == Sum(df, "TOTAL")
        present == SelectSeq(demographic_cols, LAMBDA c : HasColumn(df, c))
        gaps_data == [i \in 1..Len(present) |->
            LET demo_col == present[i]
                actual_count == Sum(df, demo_col)
                actual_percentage == Percentage(actual_count, total_people)
                target_percentage == Get(targets, demo_col, RInt(0))
                gap == RSub(actual_percentage, target_percentage)
            IN ("Demographic" :> demo_col) @@ ("Actual Count" :> actual_count) @@
               ("Actual %" :> Round2(actual_percentage)) @@
               ("Target %" :> target_percentage) @@
               ("Gap" :> Round2(gap)) @@ ("Gap Status" :> gap_status(gap))]
    IN IF Len(demographic_cols) = 0 \/ IsEmpty(df) THEN Returned(<<>>)
       ELSE IF total_people = 0 THEN Returned(<<>>)
       ELSE sort_frame(gaps_data, "Gap", TRUE)

\* the first index of seq whose value no other value exceeds (max) or undercuts (min)
\* the first index holding the smallest value, taken for the largest
ArgMax_Smallest(seq) == CHOOSE i \in 1..Len(seq) :
    /\ \A j \in 1..Len(seq) : ~RLt(seq[j], seq[i])
    /\ \A j \in 1..(i - 1) : RLt(seq[i], seq[j])

ArgMax(seq) == CHOOSE i \in 1..Len(seq) :
    /\ \A j \in 1..Len(seq) : ~RLt(seq[i], seq[j])
    /\ \A j \in 1..(i - 1) : RLt(seq[j], seq[i])

ArgMin(seq) == CHOOSE i \in 1..Len(seq) :
    /\ \A j \in 1..Len(seq) : ~RLt(seq[j], seq[i])
    /\ \A j \in 1..(i - 1) : RLt(seq[i], seq[j])

\* AdvancedDemographicAnalytics(df, demographic_cols).detect_representation_gaps(targets)
detect_representation_gaps(df, demographic_cols, targets) ==
    LET entities == SelectSeq(unique(df, "EntityDesc"),
                        LAMBDA e : Sum(WhereEq(df, "EntityDesc", e), "TOTAL") # 0)
        present == SelectSeq(demographic_cols, LAMBDA c : HasColumn(df, c))
        gap_analysis == [i \in 1..Len(entities) |->
            LET entity_data == WhereEq(df, "EntityDesc", entities[i])
                total_people == Sum(entity_data, "TOTAL")
                gaps == [k \in 1..Len(present) |->
                           RSub(Percentage(Sum(entity_data, present[k]), total_people),
                                TargetLookup(targets, present[k], RInt(10)))]
                hi == ArgMax(gaps)
                lo == ArgMin(gaps)
            IN [Module |-> entities[i],
                Total_People |-> total_people,
                Largest_Overrep |-> [demo |-> present[hi], gap |-> Round1(gaps[hi])],
                Largest_Underrep |-> [demo |-> present[lo], gap |-> Round1(gaps[lo])],
                Gap_Range |-> RSub(gaps[hi], gaps[lo])]]
    IN sort_frame(IF Len(present) = 0 THEN <<>> ELSE gap_analysis, "Gap_Range", FALSE)

\* max(0, x)
Max0(x) == IF RLt(RInt(0), x) THEN x ELSE RInt(0)

\* a recommendation from a gap of 10 on
needs_recommendation_From10(gap) == RLe(RInt(10), gap)

\* if gap > 10: with gap = abs(actual_pct - target_pct)
needs_recommendation(gap) == RLt(RInt(10), gap)

\* AdvancedDemographicAnalytics(df, demographic_cols).generate_equity_scorecard(targets)
generate_equity_scorecard(df, demographic_cols, targets) ==
    LET total_people == Sum(df, "TOTAL")
        present == SelectSeq(demographic_cols, LAMBDA c : HasColumn(df, c))
        entry == [i \in 1..Len(present) |->
            LET actual_pct == Percentage(Sum(df, present[i]), total_people)
                target_pct == TargetLookup(targets, present[i], RInt(10))
                gap == RAbs(RSub(actual_pct, target_pct))
            IN [score |-> Max0(RSub(RInt(100), RMul(gap, RInt(5)))),
                actual |-> actual_pct,
                target |-> target_pct,
                gap |-> RSub(actual_pct, target_pct),
                recommend |-> needs_recommendation(gap),
                increase |-> RLt(actual_pct, target_pct)]]
        advised == SelectSeq([i \in 1..Len(present) |-> i], LAMBDA i : entry[i].recommend)
    IN [overall_score |-> IF Len(present) > 0
                          THEN mean([i \in 1..Len(present) |-> entry[i].score]) ELSE RInt(0),
        demographic_scores |-> [c \in Range(present) |->
            LET e == entry[CHOOSE i \in 1..Len(present) : present[i] = c]
            IN [score |-> e.score, actual |-> e.actual, target |-> e.target, gap |-> e.gap]],
        recommendations |-> [k \in 1..Len(advised) |->
            LET e == entry[advised[k]]
            IN IF e.increase
               THEN [advice |-> "Increase", demo |-> present[advised[k]],
                     points |-> Round1(RSub(e.target, e.actual))]
               ELSE [advice |-> "Consider balancing", demo |-> present[advised[k]],
                     points |-> Round1(RSub(e.actual, e.target))]]]

\* "on_target" if abs(gap) <= 2 else ("over" if gap > 0 else "under")
tolerance_status(gap) ==
    IF RLe(RAbs(gap), RInt(2)) THEN "on_target"
    ELSE IF RLt(RInt(0), gap) THEN "over" ELSE "under"

\* df[name].nunique()
nunique(df, name) == Len(unique(df, name))

\* the dataset-level gap records of the two export builders
\* (actual_count, actual_pct, target_pct, gap per demographic column present)
overall_gaps(df, demographic_cols, targets) ==
    LET total_people == Sum(df, "TOTAL")
        present == SelectSeq(demographic_cols, LAMBDA c : HasColumn(df, c))
    IN [i \in 1..Len(present) |->
          LET actual_pct == Percentage(Sum(df, present[i]), total_people)
              target_pct == TargetLookup(targets, present[i], RInt(10))
          IN [demo_col |-> present[i], actual_count |-> Sum(df, present[i]),
              actual_pct |-> actual_pct, target_pct |-> target_pct,
              gap |-> RSub(actual_pct, target_pct)]]

\* the statuses carry a leading symbol in the source, left out here
create_executive_summary_report(df, demographic_cols, targets) ==
    LET g == overall_gaps(df, demographic_cols, targets)
        demo_summary == [i \in 1..Len(g) |->
            [Demographic |-> g[i].demo_col, Count |-> g[i].actual_count,
             Actual |-> Round1(g[i].actual_pct), Target |-> Round1(g[i].target_pct),
             Gap |-> Round1(g[i].gap),
             Status |-> IF RLe(RAbs(g[i].gap), RInt(2)) THEN "On Target"
                        ELSE IF RLt(RInt(0), g[i].gap) THEN "Over" ELSE "Under"]]
        count(status) == Len(SelectSeq(demo_summary, LAMBDA d : d.Status = status))
        overview == <<[Section |-> "DATASET OVERVIEW", Metric |-> "Total People",
                       Value |-> Sum(df, "TOTAL"),
                       Notes |-> <<nunique(df, "EntityDesc"),
                                   IF HasColumn(df, "Grade") THEN nunique(df, "Grade") ELSE 0>>],
                      [Section |-> "DATASET OVERVIEW", Metric |-> "Total Modules",
                       Value |-> nunique(df, "EntityDesc"),
                       Notes |-> "Unique educational content modules"]>>
        findings == <<[Section |-> "KEY FINDINGS", Metric |-> "Demographics On Target",
                       Value |-> <<count("On Target"), Len(demo_summary)>>,
                       Notes |-> RoundHalfEven(count("On Target") * 100, Len(demo_summary))],
                      [Section |-> "KEY FINDINGS", Metric |-> "Over-represented",
                       Value |-> count("Over"), Notes |-> "Demographics above target by >2%"],
                      [Section |-> "KEY FINDINGS", Metric |-> "Under-represented",
                       Value |-> count("Under"), Notes |-> "Demographics below target by >2%"]>>
    IN [demo_summary |-> demo_summary,
        summary_sections |-> IF Len(demo_summary) > 0 THEN overview \o findings ELSE overview]

\* ComprehensiveExporter(df, demographic_cols, targets, ...)._create_analysis_json()
create_analysis_json(df, demographic_cols, targets) ==
    LET g == overall_gaps(df, demographic_cols, targets)
        demographic_analysis == [c \in {g[i].demo_col : i \in 1..Len(g)} |->
            LET r == g[CHOOSE i \in 1..Len(g) : g[i].demo_col = c]
            IN [count |-> r.actual_count, percentage |-> Round2(r.actual_pct),
                target_percentage |-> r.target_pct, gap |-> Round2(r.gap),
                status |-> tolerance_status(r.gap)]]
        entities == unique(df, "EntityDesc")
        present == SelectSeq(demographic_cols, LAMBDA c : HasColumn(df, c))
        on_target == Cardinality({c \in DOMAIN demographic_analysis :
                                     demographic_analysis[c].status = "on_target"})
        total_demographics == Cardinality(DOMAIN demographic_analysis)
    IN [analysis_metadata |-> [total_people |-> Sum(df, "TOTAL"),
                               total_modules |-> nunique(df, "EntityDesc"),
                               demographic_columns |-> demographic_cols,
                               targets |-> targets],
        demographic_analysis |-> demographic_analysis,
        module_analysis |-> [i \in 1..Len(entities) |->
            LET entity_data == WhereEq(df, "EntityDesc", entities[i])
                module_total == Sum(entity_data, "TOTAL")
            IN [module_name |-> entities[i], total_people |-> module_total,
                demographics |-> [c \in Range(present) |->
                    [count |-> Sum(entity_data, c),
                     percentage |-> Round2(IF module_total > 0
                                           THEN Percentage(Sum(entity_data, c), module_total)
                                           ELSE RInt(0))]]]],
        equity_metrics |-> [
            overall_equity_score |-> IF total_demographics > 0
                THEN Round1(Rat(on_target * 100, total_demographics)) ELSE RInt(0),
            demographics_on_target |-> on_target,
            total_demographics |-> total_demographics,
            largest_gap |-> IF total_demographics > 0
                THEN LET a == [i \in 1..Len(g) |-> RAbs(Round2(g[i].gap))] IN a[ArgMax(a)]
                ELSE RInt(0)]]

(***************************************************************************)
(* Heatmaps. A figure is [kind |-> "annotation", text] or                   *)
(* [kind |-> "heatmap", z, x, y, customdata]; a hover text is the record of *)
(* the values it prints.                                                    *)
(***************************************************************************)
UpperOf == [c \in {CharAt(LowerChars, k) : k \in 1..Len(LowerChars)} |->
               CharAt(UpperChars, CHOOSE k \in 1..Len(LowerChars) : CharAt(LowerChars, k) = c)]

\* str.upper()
RECURSIVE upper(_)
upper(s) ==
    IF Len(s) = 0 THEN ""
    ELSE (IF CharAt(s, 1) \in DOMAIN UpperOf THEN UpperOf[CharAt(s, 1)] ELSE CharAt(s, 1))
         \o upper(SubSeq(s, 2, Len(s)))

Annotation(text) == [kind |-> "annotation", text |-> text]

Heatmap(z, x, y, customdata) ==
    [kind |-> "heatmap", z |-> z, x |-> x, y |-> y, customdata |-> customdata]

\* demo_col[:4].upper()
fallback_abbrev(demo_col) ==
    upper(SubSeq(demo_col, 1, IF Len(demo_col) < 4 THEN Len(demo_col) ELSE 4))

\* x-axis label of create_aligned_heatmap
aligned_abbrev(demo_col) ==
    LET demo_lower == lower(demo_col)
    IN IF Contains(demo_lower, "african american") THEN "AA"
       ELSE IF Contains(demo_lower, "caucasian") \/ Contains(demo_lower, "white") THEN "C"
       ELSE IF Contains(demo_lower, "asian") THEN "AS"
       ELSE IF Contains(demo_lower, "hispanic") THEN "H"
       ELSE IF Contains(demo_lower, "native american") THEN "NA"
       ELSE IF Contains(demo_lower, "pacific islander") THEN "PI"
       ELSE IF Contains(demo_lower, "lgbt") THEN "LGBT"
       ELSE IF Contains(demo_lower, "legacy") THEN "LEG"
       ELSE IF Contains(demo_lower, "physically challenged") THEN "PC"
       ELSE IF demo_lower = "male" THEN "M"
       ELSE IF demo_lower = "female" THEN "F"
       ELSE IF demo_lower = "other" THEN "OTHER"
       ELSE fallback_abbrev(demo_col)

\* x-axis label of create_improved_heatmap
improved_abbrev(demo_col) ==
    LET demo_lower == lower(demo_col)
    IN IF demo_lower \in {"aam", "aaf", "pcm", "pcf", "lgbtf", "other_m", "other_f"}
       THEN upper(demo_col)
       ELSE IF Contains(demo_lower, "african american") THEN "AA"
       ELSE IF Contains(demo_lower, "hispanic") THEN "H"
       ELSE IF Contains(demo_lower, "asian") THEN "AS"
       ELSE IF Contains(demo_lower, "caucasian") \/ Contains(demo_lower, "white") THEN "C"
       ELSE IF Contains(demo_lower, "native american") THEN "NA"
       ELSE IF Contains(demo_lower, "pacific islander") THEN "PI"
       ELSE IF Contains(demo_lower, "lgbt") THEN "LGBT"
       ELSE IF Contains(demo_lower, "legacy") THEN "LEG"
       ELSE IF Contains(demo_lower, "physically challenged") THEN "PC"
       ELSE IF demo_lower = "male" THEN "M"
       ELSE IF demo_lower = "female" THEN "F"
       ELSE IF demo_lower = "other" THEN "OTHER"
       ELSE fallback_abbrev(demo_col)

\* one cell of create_aligned_heatmap: the gap and its hover text
aligned_cell(entity_name, entity_data, total_people, demo_col, targets) ==
    LET demo_count == IF HasColumn(entity_data, demo_col) THEN Sum(entity_data, demo_col) ELSE 0
        actual_pct == IF total_people > 0 THEN Percentage(demo_count, total_people) ELSE RInt(0)
        target_pct == TargetLookup(targets, demo_col, RInt(10))
        gap == RSub(actual_pct, target_pct)
    IN [z |-> gap,
        hover |-> [entity |-> entity_name, demographic |-> demo_col,
                   actual |-> Round1(actual_pct), count |-> demo_count,
                   target |-> Round1(target_pct), gap |-> Round1(gap),
                   total |-> total_people]]

\* the loop body of create_aligned_heatmap with the label appended before the
\* test of the total
aligned_step_LabelFirst(acc, df, valid_cols, targets, entity_name) ==
    LET entity_data == WhereEq(df, "EntityDesc", entity_name)
        total_people == Sum(entity_data, "TOTAL")
        cells == [j \in 1..Len(valid_cols) |->
                    aligned_cell(entity_name, entity_data, total_people, valid_cols[j], targets)]
        labelled == [acc EXCEPT !.y_labels = Append(@, Truncate(entity_name, 40))]
    IN IF total_people = 0 THEN labelled
       ELSE [labelled EXCEPT
               !.z_matrix = Append(@, [j \in 1..Len(valid_cols) |-> cells[j].z]),
               !.hover_matrix = Append(@, [j \in 1..Len(valid_cols) |-> cells[j].hover])]

\* the loop body of create_aligned_heatmap for one group of df.groupby('EntityDesc')
aligned_step(acc, df, valid_cols, targets, entity_name) ==
    LET entity_data == WhereEq(df, "EntityDesc", entity_name)
        total_people == Sum(entity_data, "TOTAL")
        cells == [j \in 1..Len(valid_cols) |->
                    aligned_cell(entity_name, entity_data, total_people, valid_cols[j], targets)]
    IN IF total_people = 0 THEN acc
       ELSE [z_matrix |-> Append(acc.z_matrix, [j \in 1..Len(valid_cols) |-> cells[j].z]),
             hover_matrix |-> Append(acc.hover_matrix,
                                     [j \in 1..Len(valid_cols) |-> cells[j].hover]),
             y_labels |-> Append(acc.y_labels, Truncate(entity_name, 40))]

RECURSIVE aligned_loop(_, _, _, _, _, _)
aligned_loop(acc, df, valid_cols, targets, names, i) ==
    IF i > Len(names) THEN acc
    ELSE aligned_loop(aligned_step(acc, df, valid_cols, targets, names[i]),
                      df, valid_cols, targets, names, i + 1)

create_aligned_heatmap(df, demographic_cols, targets) ==
    LET valid_cols == SelectSeq(demographic_cols, LAMBDA c : HasColumn(df, c))
    IN IF IsEmpty(df) \/ Len(demographic_cols) = 0
       THEN Annotation("No data available for heatmap")
       ELSE IF Len(valid_cols) = 0 THEN Annotation("No valid demographic columns found")
       ELSE The({IF Len(m.z_matrix) = 0 THEN Annotation("No data to display")
                 ELSE Heatmap(m.z_matrix,
                              [j \in 1..Len(valid_cols) |-> aligned_abbrev(valid_cols[j])],
                              m.y_labels, m.hover_matrix) :
                 m \in {aligned_loop([z_matrix |-> <<>>, hover_matrix |-> <<>>, y_labels |-> <<>>],
                                     df, valid_cols, targets, groupby(df, "EntityDesc"), 1)}})

\* entity_data[demo_col].isna().all()
AllNa(entity_data, demo_col) ==
    \A r \in 1..Len(entity_data.rows) : Cell(entity_data, r, demo_col) \notin Int

\* the rows of heatmap_data: one per module with a non-zero total
improved_heatmap_data(df, valid_demographic_cols, targets) ==
    LET names == SelectSeq(groupby(df, "EntityDesc"),
                           LAMBDA e : Sum(WhereEq(df, "EntityDesc", e), "TOTAL") # 0)
    IN [i \in 1..Len(names) |->
          LET entity_data == WhereEq(df, "EntityDesc", names[i])
              total_people == Sum(entity_data, "TOTAL")
          IN [EntityDesc |-> names[i], Total_People |-> total_people,
              gaps |-> [demo_col \in Range(valid_demographic_cols) |->
                  IF HasColumn(entity_data, demo_col) /\ ~AllNa(entity_data, demo_col)
                  THEN RSub(IF total_people > 0
                            THEN Percentage(Sum(entity_data, demo_col), total_people)
                            ELSE RInt(0),
                            TargetLookup(targets, demo_col, RInt(10)))
                  ELSE RNeg(TargetLookup(targets, demo_col, RInt(10)))]]]

\* one cell of the second pass of create_improved_heatmap
improved_cell(df, row, demo_col, targets) ==
    LET entity_name == row.EntityDesc
        total_people == row.Total_People
        entity_data == WhereEq(df, "EntityDesc", entity_name)
        has_data == HasColumn(entity_data, demo_col) /\ ~AllNa(entity_data, demo_col)
        demo_count == IF has_data THEN Sum(entity_data, demo_col) ELSE 0
        actual_percentage == IF has_data /\ total_people > 0
                             THEN Percentage(demo_count, total_people) ELSE RInt(0)
        target_percentage == TargetLookup(targets, demo_col, RInt(10))
    IN IF demo_col \in DOMAIN row.gaps
       THEN [z |-> row.gaps[demo_col],
             hover |-> [entity |-> Truncate(entity_name, 60), demographic |-> demo_col,
                        actual |-> Round1(actual_percentage), count |-> demo_count,
                        target |-> Round1(target_percentage),
                        gap |-> Round1(row.gaps[demo_col]), total |-> total_people]]
       ELSE [z |-> RInt(0),
             hover |-> [entity |-> Truncate(entity_name, 60), demographic |-> demo_col,
                        actual |-> RInt(0), count |-> 0,
                        target |-> Round1(target_percentage),
                        gap |-> Round1(RNeg(target_percentage)), total |-> total_people]]

create_improved_heatmap(df, demographic_cols, targets) ==
    LET required_cols == <<"EntityDesc", "TOTAL">> \o demographic_cols
        missing_cols == SelectSeq(required_cols, LAMBDA c : ~HasColumn(df, c))
        valid_demographic_cols == SelectSeq(demographic_cols, LAMBDA c : HasColumn(df, c))
    IN IF IsEmpty(df)
       THEN Annotation("No data available - try selecting different modules or check your filters")
       ELSE IF Len(demographic_cols) = 0
       THEN Annotation("No demographic columns found in the data")
       ELSE IF Len(missing_cols) > 0
       THEN [kind |-> "annotation", text |-> "Missing required columns", missing |-> missing_cols]
       ELSE IF Len(valid_demographic_cols) = 0
       THEN Annotation("No valid demographic columns found in the data")
       ELSE The({IF Len(heatmap_data) = 0 THEN Annotation("No data available for heatmap")
                 ELSE The({Heatmap([i \in 1..Len(cells) |->
                                      [j \in 1..Len(valid_demographic_cols) |-> cells[i][j].z]],
                                   [j \in 1..Len(valid_demographic_cols) |->
                                      improved_abbrev(valid_demographic_cols[j])],
                                   [i \in 1..Len(heatmap_data) |->
                                      Truncate(heatmap_data[i].EntityDesc, 40)],
                                   [i \in 1..Len(cells) |->
                                      [j \in 1..Len(valid_demographic_cols) |-> cells[i][j].hover]]) :
                           cells \in {[i \in 1..Len(heatmap_data) |->
                               [j \in 1..Len(valid_demographic_cols) |->
                                   improved_cell(df, heatmap_data[i],
                                                 valid_demographic_cols[j], targets)]]}}) :
                 heatmap_data \in {improved_heatmap_data(df, valid_demographic_cols, targets)}})

(***************************************************************************)
(* The analytics specifications: a dataset is loaded, then the operations   *)
(* of the engine are applied to it.                                          *)
(***************************************************************************)
MaxRows == 2

AnalysisHeader == <<"Grade", "EntityDesc", "Component Desc", "AAM", "Hispanic", "TOTAL">>

LongModule == "Lesson B: Rosa Parks and the Montgomery Bus Boycott"

\* (Grade, EntityDesc, Component Desc) of a row
AnalysisKeys ==
    {<<"Gr. 1", LongModule, "Read">>, <<"Gr. 1", "Lesson A", "Write">>,
     <<"Gr. 2", LongModule, "Write">>, <<"Gr. 2", "Lesson A", "Read">>}

\* (AAM, Hispanic) of a row
AnalysisCounts == {<<0, 0>>, <<1, 2>>}

\* TOTAL of a row
AnalysisTotals == {0, 3}

AnalysisRows ==
    {<<k[1], k[2], k[3], c[1], c[2], t>> :
        k \in AnalysisKeys, c \in AnalysisCounts, t \in AnalysisTotals}

AnalysisTables ==
    {[cols |-> AnalysisHeader, rows |-> r] :
        r \in UNION {[1..n -> AnalysisRows] : n \in 0..MaxRows}}

\* the demographic columns an operation is called with
Selections == {<<>>, <<"AAM", "Hispanic">>, <<"Hispanic">>, <<"Hispanic", "LGBTF", "AAM">>}

\* the target dictionaries an operation is called with: the two the
\* application builds, and dictionaries keyed in other letter cases
TargetConfigs ==
    {ConfiguredTargets(<<"AAM", "Hispanic">>, <<>>),
     ExportTargets(<<"AAM", "Hispanic">>, <<"Hispanic">>, ("Hispanic" :> RInt(66))),
     ("aam" :> RInt(6)) @@ ("AAM" :> RInt(32)) @@ ("hispanic" :> RInt(66)),
     ("Aam" :> RInt(5)),
     <<>>}

\* the session after a successful upload of an analysis table
InitAnalysis ==
    \E t \in AnalysisTables : \E c \in {Construct(t)} :
        /\ uploaded_file = t
        /\ data = t
        /\ data_processor = c.proc
        /\ event = [handler |-> "upload", outcome |-> "ok", mapped |-> c.mapped]
        /\ result = NoResult

Loaded == data # None /\ data_processor # None

\* processor.apply_filters(...) with every grade, component and module selected
filtered_data == data_processor.df

\* a call is made in a script run over a loaded session; the outputs of a run
\* are built from scratch
CanCall == Loaded /\ result = NoResult

\* the script run ends: nothing it displayed is kept for the next run
EndRun ==
    /\ result # NoResult
    /\ result' = NoResult
    /\ UNCHANGED <<data, data_processor, uploaded_file, event>>

CalculateModuleTotals ==
    /\ CanCall
    /\ result' = [op |-> "calculate_module_totals",
                  value |-> calculate_module_totals(filtered_data)]
    /\ UNCHANGED <<data, data_processor, uploaded_file, event>>

CalculateDemographicPercentages ==
    /\ CanCall
    /\ result' = [op |-> "calculate_demographic_percentages",
                  value |-> calculate_demographic_percentages(data_processor, filtered_data)]
    /\ UNCHANGED <<data, data_processor, uploaded_file, event>>

CalculateDemographicTrends ==
    /\ CanCall
    /\ result' = [op |-> "calculate_demographic_trends",
                  value |-> calculate_demographic_trends(data_processor, filtered_data)]
    /\ UNCHANGED <<data, data_processor, uploaded_file, event>>

CalculateGradeComparisons ==
    /\ CanCall
    /\ result' = [op |-> "calculate_grade_comparisons",
                  value |-> calculate_grade_comparisons(data_processor, filtered_data)]
    /\ UNCHANGED <<data, data_processor, uploaded_file, event>>

CalculateDiversityMetrics ==
    /\ CanCall
    /\ result' = [op |-> "calculate_diversity_metrics",
                  value |-> calculate_diversity_metrics(data_processor, filtered_data)]
    /\ UNCHANGED <<data, data_processor, uploaded_file, event>>

CalculateDemographicGaps(targets) ==
    /\ CanCall
    /\ result' = [op |-> "calculate_demographic_gaps", targets |-> targets,
                  demographic_cols |-> get_demographic_columns(data_processor),
                  value |-> calculate_demographic_gaps(data_processor, filtered_data, targets)]
    /\ UNCHANGED <<data, data_processor, uploaded_file, event>>

DetectRepresentationGaps(demographic_cols, targets) ==
    /\ CanCall
    /\ result' = [op |-> "detect_representation_gaps", targets |-> targets,
                  demographic_cols |-> demographic_cols,
                  value |-> detect_representation_gaps(filtered_data, demographic_cols, targets)]
    /\ UNCHANGED <<data, data_processor, uploaded_file, event>>

GenerateEquityScorecard(demographic_cols, targets) ==
    /\ CanCall
    /\ result' = [op |-> "generate_equity_scorecard", targets |-> targets,
                  demographic_cols |-> demographic_cols,
                  value |-> generate_equity_scorecard(filtered_data, demographic_cols, targets)]
    /\ UNCHANGED <<data, data_processor, uploaded_file, event>>

CreateExecutiveSummaryReport(demographic_cols, targets) ==
    /\ CanCall
    /\ result' = [op |-> "create_executive_summary_report", targets |-> targets,
                  demographic_cols |-> demographic_cols,
                  value |-> create_executive_summary_report(filtered_data, demographic_cols, targets)]
    /\ UNCHANGED <<data, data_processor, uploaded_file, event>>

CreateAnalysisJson(demographic_cols, targets) ==
    /\ CanCall
    /\ result' = [op |-> "_create_analysis_json", targets |-> targets,
                  demographic_cols |-> demographic_cols,
                  value |-> create_analysis_json(filtered_data, demographic_cols, targets)]
    /\ UNCHANGED <<data, data_processor, uploaded_file, event>>

CreateAlignedHeatmap(demographic_cols, targets) ==
    /\ CanCall
    /\ result' = [op |-> "create_aligned_heatmap", targets |-> targets,
                  demographic_cols |-> demographic_cols,
                  value |-> create_aligned_heatmap(filtered_data, demographic_cols, targets)]
    /\ UNCHANGED <<data, data_processor, uploaded_file, event>>

CreateImprovedHeatmap(demographic_cols, targets) ==
    /\ CanCall
    /\ result' = [op |-> "create_improved_heatmap", targets |-> targets,
                  demographic_cols |-> demographic_cols,
                  value |-> create_improved_heatmap(filtered_data, demographic_cols, targets)]
    /\ UNCHANGED <<data, data_processor, uploaded_file, event>>

\* the targets and columns of a session whose sidebar and target inputs are untouched
DefaultTargets == ConfiguredTargets(get_demographic_columns(data_processor), <<>>)

NextAgg ==
    \/ CalculateModuleTotals
    \/ CalculateDemographicPercentages
    \/ CalculateDemographicTrends
    \/ CalculateGradeComparisons
    \/ CalculateDiversityMetrics
    \/ DetectRepresentationGaps(get_demographic_columns(data_processor), DefaultTargets)
    \/ CreateAlignedHeatmap(get_demographic_columns(data_processor), DefaultTargets)
    \/ CreateImprovedHeatmap(get_demographic_columns(data_processor), DefaultTargets)
    \/ EndRun

SpecAgg == InitAnalysis /\ [][NextAgg]_vars

NextGap ==
    \/ \E targets \in TargetConfigs : CalculateDemographicGaps(targets)
    \/ \E demographic_cols \in Selections, targets \in TargetConfigs :
          \/ DetectRepresentationGaps(demographic_cols, targets)
          \/ GenerateEquityScorecard(demographic_cols, targets)
          \/ CreateExecutiveSummaryReport(demographic_cols, targets)
          \/ CreateAnalysisJson(demographic_cols, targets)
          \/ CreateAlignedHeatmap(demographic_cols, targets)
    \/ EndRun

SpecGap == InitAnalysis /\ [][NextGap]_vars

NextHeat ==
    \/ \E demographic_cols \in Selections, targets \in TargetConfigs :
          \/ CreateAlignedHeatmap(demographic_cols, targets)
          \/ CreateImprovedHeatmap(demographic_cols, targets)
    \/ EndRun

SpecHeat == InitAnalysis /\ [][NextHeat]_vars

(***************************************************************************)
(* Dataset-wide reports: the chatbot's gap analysis, the benchmark chart    *)
(* and the module and recommendation reports of the Excel export            *)
(***************************************************************************)
\* int(x) of a finite number: truncation toward zero
IntTrunc(a) == IF a.n < 0 THEN -((-a.n) \div a.d) ELSE a.n \div a.d

\* DemographicChatbot.analyze_demographic_gaps: int() of a NaN raises ValueError
analyze_demographic_gaps(df, demographic_cols, targets) ==
    LET total_people == Sum(df, "TOTAL")
        g == overall_gaps(df, demographic_cols, targets)
        gap_count == [i \in 1..Len(g) |->
                        RMul(RDiv(g[i].gap, RInt(100)), RInt(total_people))]
    IN IF \E i \in 1..Len(g) : IsNaN(gap_count[i]) THEN Raised("ValueError")
       ELSE IF \E i \in 1..Len(g) : ~IsFinite(gap_count[i]) THEN Raised("OverflowError")
       ELSE Returned(
          [total_people |-> total_people,
           demographics |-> [c \in {g[i].demo_col : i \in 1..Len(g)} |->
               LET i == CHOOSE k \in 1..Len(g) : g[k].demo_col = c
               IN [actual_count |-> g[i].actual_count,
                   actual_percentage |-> Round1(g[i].actual_pct),
                   target_percentage |-> g[i].target_pct,
                   gap |-> Round1(g[i].gap),
                   gap_count |-> IntTrunc(gap_count[i])]],
           recommendations_needed |->
               LET needed == SelectSeq(g, LAMBDA r : RLt(RInt(2), RAbs(r.gap)))
               IN [k \in 1..Len(needed) |-> needed[k].demo_col]])

\* create_benchmark_comparison_chart: the two bar traces over df_comp; a frame
\* built from no rows has no column 'Demographic'
create_benchmark_comparison_chart(df, demographic_cols, targets) ==
    LET g == overall_gaps(df, demographic_cols, targets)
    IN IF Len(g) = 0 THEN Raised("KeyError")
       ELSE Returned(
          [x |-> [i \in 1..Len(g) |-> g[i].demo_col],
           Actual |-> [i \in 1..Len(g) |-> g[i].actual_pct],
           Target |-> [i \in 1..Len(g) |-> g[i].target_pct],
           Gap |-> [i \in 1..Len(g) |-> g[i].gap],
           actual_text |-> [i \in 1..Len(g) |-> Round1(g[i].actual_pct)],
           target_text |-> [i \in 1..Len(g) |-> Round1(g[i].target_pct)]])

\* 'High' / 'Medium' / 'Low' of create_detailed_module_report
equity_risk(largest_gap, smallest_gap) ==
    IF RLt(RInt(15), RAbs(largest_gap)) \/ RLt(RInt(15), RAbs(smallest_gap)) THEN "High"
    ELSE IF RLt(RInt(8), RAbs(largest_gap)) \/ RLt(RInt(8), RAbs(smallest_gap)) THEN "Medium"
    ELSE "Low"

\* the rows of module_reports; the Shannon index is given by the proportions
\* it sums -p * log(p) over (none when at most one is positive)
module_reports(df, demographic_cols, targets) ==
    LET entities == SelectSeq(unique(df, "EntityDesc"),
                        LAMBDA e : Sum(WhereEq(df, "EntityDesc", e), "TOTAL") # 0)
        present == SelectSeq(demographic_cols, LAMBDA c : HasColumn(df, c))
    IN [i \in 1..Len(entities) |->
          LET entity_data == WhereEq(df, "EntityDesc", entities[i])
              total_people == Sum(entity_data, "TOTAL")
              demo_counts == [k \in 1..Len(present) |-> RInt(Sum(entity_data, present[k]))]
              positive == SelectSeq([k \in 1..Len(present) |->
                                        RDiv(demo_counts[k], RSum(demo_counts))],
                                    LAMBDA q : RLt(RInt(0), q))
              gaps == [k \in 1..Len(present) |->
                         RSub(IF total_people > 0
                              THEN Percentage(Sum(entity_data, present[k]), total_people)
                              ELSE RInt(0),
                              TargetLookup(targets, present[k], RInt(10)))]
              largest_gap == IF Len(gaps) > 0 THEN gaps[ArgMax(gaps)] ELSE RInt(0)
              smallest_gap == IF Len(gaps) > 0 THEN gaps[ArgMin(gaps)] ELSE RInt(0)
          IN [Module_Name |-> entities[i],
              Total_People |-> RInt(total_people),
              Diversity_Score |-> [proportions |-> IF Len(positive) > 1 THEN positive ELSE <<>>],
              Largest_Overrep |-> Round1(largest_gap),
              Largest_Underrep |-> Round1(smallest_gap),
              Equity_Risk |-> equity_risk(largest_gap, smallest_gap)]]

create_detailed_module_report(df, demographic_cols, targets) ==
    sort_frame(module_reports(df, demographic_cols, targets), "Total_People", FALSE)

create_recommendations_report(df, demographic_cols, targets) ==
    LET g == overall_gaps(df, demographic_cols, targets)
        underrep_demos == SelectSeq(g, LAMBDA r : RLt(r.gap, RInt(-5)))
        overrep_demos == SelectSeq(g, LAMBDA r : ~RLt(r.gap, RInt(-5)) /\ RLt(RInt(5), r.gap))
        worst_underrep == underrep_demos[ArgMin([k \in 1..Len(underrep_demos) |->
                                                    underrep_demos[k].gap])]
        worst_overrep == overrep_demos[ArgMax([k \in 1..Len(overrep_demos) |->
                                                  overrep_demos[k].gap])]
        module_analysis == create_detailed_module_report(df, demographic_cols, targets)
        high_risk_modules == SelectSeq(module_analysis.value,
                                       LAMBDA m : m.Equity_Risk = "High")
        total_modules == nunique(df, "EntityDesc")
        names == groupby(df, "EntityDesc")
        very_small == Len(SelectSeq(names,
                          LAMBDA e : Sum(WhereEq(df, "EntityDesc", e), "TOTAL") < 20))
        recommendations ==
            (IF Len(underrep_demos) > 0
             THEN <<[kind |-> "PRIORITY", demo |-> worst_underrep.demo_col,
                     points |-> Round1(RAbs(worst_underrep.gap))]>>
             ELSE <<>>) \o
            (IF Len(overrep_demos) > 0
             THEN <<[kind |-> "BALANCE", demo |-> worst_overrep.demo_col,
                     points |-> Round1(worst_overrep.gap)]>>
             ELSE <<>>) \o
            (IF Len(high_risk_modules) > 0
             THEN <<[kind |-> "MODULES", modules |-> Len(high_risk_modules)]>>
             ELSE <<>>) \o
            (IF 10 * very_small > 3 * total_modules
             THEN <<[kind |-> "SCALE", modules |-> very_small]>>
             ELSE <<>>)
    IN IF module_analysis.raised THEN module_analysis
       ELSE Returned(IF Len(recommendations) = 0 THEN <<[kind |-> "EXCELLENT"]>>
                     ELSE recommendations)

AnalyzeDemographicGaps(demographic_cols, targets) ==
    /\ CanCall
    /\ result' = [op |-> "analyze_demographic_gaps", targets |-> targets,
                  demographic_cols |-> demographic_cols,
                  value |-> analyze_demographic_gaps(filtered_data, demographic_cols, targets)]
    /\ UNCHANGED <<data, data_processor, uploaded_file, event>>

CreateBenchmarkComparisonChart(demographic_cols, targets) ==
    /\ CanCall
    /\ result' = [op |-> "create_benchmark_comparison_chart", targets |-> targets,
                  demographic_cols |-> demographic_cols,
                  value |-> create_benchmark_comparison_chart(filtered_data,
                                                              demographic_cols, targets)]
    /\ UNCHANGED <<data, data_processor, uploaded_file, event>>

CreateDetailedModuleReport(demographic_cols, targets) ==
    /\ CanCall
    /\ result' = [op |-> "create_detailed_module_report", targets |-> targets,
                  demographic_cols |-> demographic_cols,
                  value |-> create_detailed_module_report(filtered_data,
                                                          demographic_cols, targets)]
    /\ UNCHANGED <<data, data_processor, uploaded_file, event>>

CreateRecommendationsReport(demographic_cols, targets) ==
    /\ CanCall
    /\ result' = [op |-> "create_recommendations_report", targets |-> targets,
                  demographic_cols |-> demographic_cols,
                  value |-> create_recommendations_report(filtered_data,
                                                          demographic_cols, targets)]
    /\ UNCHANGED <<data, data_processor, uploaded_file, event>>

\* the dataset-wide reports and the per-module analyses, on any dataset
NextReport ==
    \/ CalculateModuleTotals
    \/ CalculateDemographicPercentages
    \/ CalculateDemographicTrends
    \/ \E targets \in TargetConfigs : CalculateDemographicGaps(targets)
    \/ \E demographic_cols \in Selections, targets \in TargetConfigs :
          \/ DetectRepresentationGaps(demographic_cols, targets)
          \/ GenerateEquityScorecard(demographic_cols, targets)
          \/ AnalyzeDemographicGaps(demographic_cols, targets)
          \/ CreateBenchmarkComparisonChart(demographic_cols, targets)
          \/ CreateDetailedModuleReport(demographic_cols, targets)
          \/ CreateRecommendationsReport(demographic_cols, targets)
    \/ EndRun

SpecReport == InitAnalysis /\ [][NextReport]_vars

\* the advanced analytics tab: the equity scorecard and the module gap table
NextEquity ==
    \/ \E demographic_cols \in Selections, targets \in TargetConfigs :
          \/ GenerateEquityScorecard(demographic_cols, targets)
          \/ DetectRepresentationGaps(demographic_cols, targets)
    \/ EndRun

SpecEquity == InitAnalysis /\ [][NextEquity]_vars

(***************************************************************************)
(* Filtering (data_processor.py 104-120). A method call is given by the     *)
(* processor object it leaves behind and the value it returns; the          *)
(* processor lives in the session across script runs.                       *)
(***************************************************************************)
\* df[df[name].isin(values)]
isin(df, name, values) ==
    [cols |-> df.cols,
     rows |-> SelectSeq(df.rows, LAMBDA row : InSeq(row[ColIndex(df.cols, name)], values))]

\* one turn of the loop with an empty selection keeping no row
filter_step_EmptyKeepsNone(filtered_df, column, values) ==
    IF HasColumn(filtered_df, column)
    THEN isin(filtered_df, column, values)
    ELSE filtered_df
\* one turn of the loop over filters.items()
filter_step(filtered_df, column, values) ==
    IF HasColumn(filtered_df, column) /\ Len(values) > 0
    THEN isin(filtered_df, column, values)
    ELSE filtered_df

\* the loop over filters.items(), on the local filtered_df
RECURSIVE filter_loop(_, _, _)
filter_loop(filtered_df, filters, i) ==
    IF i > Len(filters) THEN filtered_df
    ELSE filter_loop(filter_step(filtered_df, filters[i][1], filters[i][2]),
                     filters, i + 1)

\* apply_filters narrowing self.df itself instead of a copy
apply_filters_InPlace(self, filters) ==
    [self |-> [self EXCEPT !.df = filter_loop(self.df, filters, 1)],
     value |-> filter_loop(self.df, filters, 1)]

\* processor.apply_filters(filters): filtered_df = self.df.copy() is narrowed
apply_filters(self, filters) ==
    [self |-> self, value |-> filter_loop(self.df, filters, 1)]

\* the sidebar's multiselects, as the items of the filters dictionary
SidebarFilters(selected_grades, selected_components, selected_entities) ==
    <<<<"Grade", selected_grades>>, <<"Component Desc", selected_components>>,
      <<"EntityDesc", selected_entities>>>>

\* filter dictionaries: everything selected, one component, one grade of one
\* module, a selection matching nothing, and a dictionary with an absent
\* column and an empty selection
FilterChoices ==
    {SidebarFilters(<<"Gr. 1", "Gr. 2">>, <<"Read", "Write">>, <<"Lesson A", LongModule>>),
     SidebarFilters(<<"Gr. 1", "Gr. 2">>, <<"Write">>, <<LongModule, "Lesson A">>),
     SidebarFilters(<<"Gr. 2">>, <<"Read", "Write">>, <<"Lesson A">>),
     SidebarFilters(<<"Gr. 3">>, <<"Read", "Write">>, <<"Lesson A">>),
     <<<<"Region", <<"North">>>>, <<"Grade", <<>>>>, <<"EntityDesc", <<LongModule>>>>>>}

\* one filtered computation of a script run: filter, then compute on the scope
ApplyFilters(filters) ==
    /\ CanCall
    /\ \E r \in {apply_filters(data_processor, filters)} :
          /\ data_processor' = r.self
          /\ result' = [op |-> "apply_filters", filters |-> filters, value |-> r.value]
    /\ UNCHANGED <<data, uploaded_file, event>>

FilteredModuleTotals(filters) ==
    /\ CanCall
    /\ \E r \in {apply_filters(data_processor, filters)} :
          /\ data_processor' = r.self
          /\ result' = [op |-> "calculate_module_totals", filters |-> filters,
                        value |-> calculate_module_totals(r.value)]
    /\ UNCHANGED <<data, uploaded_file, event>>

FilteredDemographicTrends(filters) ==
    /\ CanCall
    /\ \E r \in {apply_filters(data_processor, filters)} :
          /\ data_processor' = r.self
          /\ result' = [op |-> "calculate_demographic_trends", filters |-> filters,
                        value |-> calculate_demographic_trends(r.self, r.value)]
    /\ UNCHANGED <<data, uploaded_file, event>>

FilteredDemographicGaps(filters) ==
    /\ CanCall
    /\ \E r \in {apply_filters(data_processor, filters)} :
          /\ data_processor' = r.self
          /\ result' = [op |-> "calculate_demographic_gaps", filters |-> filters,
                        value |-> calculate_demographic_gaps(r.self, r.value, DefaultTargets)]
    /\ UNCHANGED <<data, uploaded_file, event>>

FilteredDiversityMetrics(filters) ==
    /\ CanCall
    /\ \E r \in {apply_filters(data_processor, filters)} :
          /\ data_processor' = r.self
          /\ result' = [op |-> "calculate_diversity_metrics", filters |-> filters,
                        value |-> calculate_diversity_metrics(r.self, r.value)]
    /\ UNCHANGED <<data, uploaded_file, event>>

FilteredAlignedHeatmap(filters) ==
    /\ CanCall
    /\ \E r \in {apply_filters(data_processor, filters)} :
          /\ data_processor' = r.self
          /\ result' = [op |-> "create_aligned_heatmap", filters |-> filters,
                        value |-> create_aligned_heatmap(r.value,
                                      get_demographic_columns(r.self), DefaultTargets)]
    /\ UNCHANGED <<data, uploaded_file, event>>

NextFilter ==
    \/ \E filters \in FilterChoices :
          \/ ApplyFilters(filters)
          \/ FilteredModuleTotals(filters)
          \/ FilteredDemographicTrends(filters)
          \/ FilteredDemographicGaps(filters)
          \/ FilteredDiversityMetrics(filters)
          \/ FilteredAlignedHeatmap(filters)
    \/ EndRun

SpecFilter == InitAnalysis /\ [][NextFilter]_vars

\* filter dictionaries in several key orders: three constraining keys, an
\* empty selection beside an absent column, one key, and no key
SelectChoices ==
    {SidebarFilters(<<"Gr. 1">>, <<"Write">>, <<"Lesson A", LongModule>>),
     <<<<"EntityDesc", <<"Lesson A", LongModule>>>>, <<"Component Desc", <<"Write">>>>,
       <<"Grade", <<"Gr. 1">>>>>>,
     SidebarFilters(<<"Gr. 2", "Gr. 1">>, <<"Read">>, <<"Lesson A">>),
     <<<<"Component Desc", <<"Read">>>>, <<"EntityDesc", <<"Lesson A">>>>,
       <<"Grade", <<"Gr. 2", "Gr. 1">>>>>>,
     <<<<"Grade", <<>>>>, <<"EntityDesc", <<LongModule>>>>, <<"Region", <<"North">>>>>>,
     <<<<"Region", <<"North">>>>, <<"EntityDesc", <<LongModule>>>>, <<"Grade", <<>>>>>>,
     <<<<"Component Desc", <<"Write">>>>>>,
     <<>>}

NextSelect ==
    \/ \E filters \in SelectChoices : ApplyFilters(filters)
    \/ EndRun

SpecSelect == InitAnalysis /\ [][NextSelect]_vars

(***************************************************************************)
(* Diversity indices of the two components (data_processor.py 492-548,      *)
(* advanced_analytics.py 15-30), over datasets whose demographic counts may *)
(* fall short of, equal or exceed the rows' totals                          *)
(***************************************************************************)
\* AdvancedDemographicAnalytics.calculate_diversity_index(entity_data) for a
\* series of counts; the Shannon index is given by the proportions it sums
\* -p * log(p) over, the 0 of an all-zero series by the sum of no terms
calculate_diversity_index(entity_data) ==
    LET total == SumRows([i \in 1..Len(entity_data) |-> <<entity_data[i]>>], 1, 1)
        all == [i \in 1..Len(entity_data) |-> RDiv(RInt(entity_data[i]), RInt(total))]
        proportions == SelectSeq(all, LAMBDA q : RLt(RInt(0), q))
    IN IF total = 0
       THEN ("shannon" :> [proportions |-> <<>>]) @@ ("simpson" :> RInt(0))
       ELSE ("shannon" :> [proportions |-> proportions]) @@
            ("simpson" :>
                RSub(RInt(1), RSum([i \in 1..Len(proportions) |->
                                      RMul(proportions[i], proportions[i])])))

\* (AAM, Hispanic) and TOTAL of a row of a diversity dataset
DiversityCounts == {<<0, 0>>, <<1, 1>>, <<2, 0>>, <<2, 3>>}

DiversityTotals == {0, 2}

DiversityRows ==
    {<<"Gr. 1", e, "Read", c[1], c[2], t>> :
        e \in {"Lesson A", "Lesson C"}, c \in DiversityCounts, t \in DiversityTotals}

DiversityTables ==
    {[cols |-> AnalysisHeader, rows |-> r] :
        r \in UNION {[1..n -> DiversityRows] : n \in 0..MaxRows}}

\* the session after a successful upload of a diversity dataset
InitDiversity ==
    \E t \in DiversityTables : \E c \in {Construct(t)} :
        /\ uploaded_file = t
        /\ data = t
        /\ data_processor = c.proc
        /\ event = [handler |-> "upload", outcome |-> "ok", mapped |-> c.mapped]
        /\ result = NoResult

\* the series of the dataset's demographic counts
count_series(df, demographic_cols) ==
    LET present == SelectSeq(demographic_cols, LAMBDA c : HasColumn(df, c))
    IN [i \in 1..Len(present) |-> Sum(df, present[i])]

CalculateDiversityIndex ==
    /\ CanCall
    /\ \E entity_data \in {count_series(filtered_data, get_demographic_columns(data_processor))} :
          result' = [op |-> "calculate_diversity_index", entity_data |-> entity_data,
                     value |-> calculate_diversity_index(entity_data)]
    /\ UNCHANGED <<data, data_processor, uploaded_file, event>>

NextDiversity ==
    \/ CalculateDiversityMetrics
    \/ CalculateDiversityIndex
    \/ EndRun

SpecDiversity == InitDiversity /\ [][NextDiversity]_vars

(***************************************************************************)
(* The axes of the aligned heatmap (heatmap_fix.py 44-48, 87-125), over     *)
(* datasets with two demographic columns of one group and modules whose     *)
(* titles agree in their first 40 characters                                *)
(***************************************************************************)
AxisHeader ==
    <<"Grade", "EntityDesc", "Component Desc", "Hispanic Male", "Hispanic Female", "TOTAL">>

LongModuleTwin == "Lesson B: Rosa Parks and the Montgomery March"

AxisRows ==
    {<<"Gr. 1", e, "Read", 1, 2, t>> :
        e \in {LongModule, LongModuleTwin, "Lesson A"}, t \in AnalysisTotals}

AxisTables ==
    {[cols |-> AxisHeader, rows |-> r] :
        r \in UNION {[1..n -> AxisRows] : n \in 0..MaxRows}}

\* the sidebar's demographic selections, and one naming a column the dataset lacks
AxisSelections ==
    {<<"Hispanic Male", "Hispanic Female">>, <<"Hispanic Female">>,
     <<"Hispanic Female", "LGBTF", "Hispanic Male">>}

AxisTargets == {<<>>, ("hispanic male" :> RInt(9)) @@ ("hispanic female" :> RInt(9))}

\* the session after a successful upload of such a dataset
InitAxis ==
    \E t \in AxisTables : \E c \in {Construct(t)} :
        /\ uploaded_file = t
        /\ data = t
        /\ data_processor = c.proc
        /\ event = [handler |-> "upload", outcome |-> "ok", mapped |-> c.mapped]
        /\ result = NoResult

NextAxis ==
    \/ \E demographic_cols \in AxisSelections, targets \in AxisTargets :
          CreateAlignedHeatmap(demographic_cols, targets)
    \/ EndRun

SpecAxis == InitAxis /\ [][NextAxis]_vars

(***************************************************************************)
(* create_heatmap (visualizations.py 7-160) and the heatmap builders on     *)
(* selections the dataset may not hold                                      *)
(***************************************************************************)
\* the rows of heatmap_data: one per module, in order of first appearance,
\* with a non-zero total; an absent column is entered as minus its target
heatmap_rows(df, demographic_cols, targets) ==
    LET entities == SelectSeq(unique(df, "EntityDesc"),
                        LAMBDA e : Sum(WhereEq(df, "EntityDesc", e), "TOTAL") # 0)
    IN [i \in 1..Len(entities) |->
          LET entity_data == WhereEq(df, "EntityDesc", entities[i])
              total_people == Sum(entity_data, "TOTAL")
          IN [EntityDesc |-> entities[i],
              diffs |-> [demo_col \in Range(demographic_cols) |->
                  IF HasColumn(entity_data, demo_col)
                  THEN RSub(Percentage(Sum(entity_data, demo_col), total_people),
                            Get(targets, demo_col, RInt(0)))
                  ELSE RNeg(Get(targets, demo_col, RInt(0)))]]]

create_heatmap(df, demographic_cols, targets) ==
    IF IsEmpty(df) \/ Len(demographic_cols) = 0
    THEN Annotation("No data available for heatmap")
    ELSE The({IF Len(heatmap_data) = 0
              THEN Annotation("No valid data for heatmap visualization")
              ELSE [kind |-> "heatmap",
                    z |-> [i \in 1..Len(heatmap_data) |->
                             [j \in 1..Len(demographic_cols) |->
                                heatmap_data[i].diffs[demographic_cols[j]]]],
                    x |-> demographic_cols,
                    y |-> [i \in 1..Len(heatmap_data) |-> heatmap_data[i].EntityDesc],
                    hovertext |-> [i \in 1..Len(heatmap_data) |->
                       [j \in 1..Len(demographic_cols) |->
                          LET demo == demographic_cols[j]
                              entity_data == WhereEq(df, "EntityDesc", heatmap_data[i].EntityDesc)
                              diff == heatmap_data[i].diffs[demo]
                              target == Get(targets, demo, RInt(0))
                          IN [entity |-> heatmap_data[i].EntityDesc, demographic |-> demo,
                              count |-> IF HasColumn(entity_data, demo)
                                        THEN Sum(entity_data, demo) ELSE 0,
                              total |-> Sum(entity_data, "TOTAL"),
                              actual |-> Round1(RAdd(diff, target)),
                              target |-> Round1(target), gap |-> Round1(diff)]]]] :
              heatmap_data \in {heatmap_rows(df, demographic_cols, targets)}})

CreateHeatmap(demographic_cols, targets) ==
    /\ CanCall
    /\ result' = [op |-> "create_heatmap", targets |-> targets,
                  demographic_cols |-> demographic_cols,
                  value |-> create_heatmap(filtered_data, demographic_cols, targets)]
    /\ UNCHANGED <<data, data_processor, uploaded_file, event>>

\* demographic lists: empty, absent from the dataset, present, mixed
BuilderSelections == {<<>>, <<"LGBTF">>, <<"Hispanic">>, <<"LGBTF", "AAM">>}

BuilderTargets == {<<>>, ("LGBTF" :> RInt(7)) @@ ("Hispanic" :> RInt(18))}

NextBuilder ==
    \/ \E demographic_cols \in BuilderSelections, targets \in BuilderTargets :
          \/ CreateHeatmap(demographic_cols, targets)
          \/ CreateAlignedHeatmap(demographic_cols, targets)
          \/ CreateImprovedHeatmap(demographic_cols, targets)
    \/ EndRun

SpecBuilder == InitAnalysis /\ [][NextBuilder]_vars

(***************************************************************************)
(* Properties of the analytics                                              *)
(***************************************************************************)
\* the rows of the loaded dataset that belong to a group
ModuleRows(e) == WhereEq(data_processor.df, "EntityDesc", e)

GradeRows(g) == WhereEq(data_processor.df, "Grade", g)

ComponentRows(c) == WhereEq(data_processor.df, "Component Desc", c)

GradeModuleRows(g, e) == WhereEq(GradeRows(g), "EntityDesc", e)

Modules == Range(unique(data_processor.df, "EntityDesc"))

NonZeroModules == {e \in Modules : Sum(ModuleRows(e), "TOTAL") # 0}

DemographicsOf(row, suffix) ==
    {c \in {"AAM", "Hispanic"} : (c \o suffix) \in DOMAIN row}

\* percentage * total_people = 100 * count, for the sums of the rows of group
ExactIn(group, demo_col, percentage) ==
    REq(RMul(percentage, RInt(Sum(group, "TOTAL"))), RInt(100 * Sum(group, demo_col)))

\* an aggregate row reports the sums of its own group and their exact percentage
ExactAggregateRow(row, group) ==
    /\ row["Total_People"] = Sum(group, "TOTAL")
    /\ \A c \in DemographicsOf(row, "_Percentage") :
          /\ row[c \o "_Count"] = Sum(group, c)
          /\ ExactIn(group, c, row[c \o "_Percentage"])

\* C2: every aggregate row with total_people > 0 that
\* calculate_demographic_percentages, calculate_demographic_trends and
\* calculate_grade_comparisons produce reports, for each demographic, a
\* percentage with percentage * total_people = 100 * count exactly, count and
\* total_people being the sums over the rows of that group itself.
C2_ExactPercentages ==
    /\ result.op = "calculate_demographic_percentages" =>
          \A i \in 1..Len(result.value) :
             LET row == result.value[i]
                 group == ModuleRows(row["EntityDesc"])
             IN Sum(group, "TOTAL") > 0 =>
                   \A c \in DOMAIN row \ {"EntityDesc"} : ExactIn(group, c, row[c])
    /\ result.op = "calculate_demographic_trends" =>
          \A i \in 1..Len(result.value) :
             LET row == result.value[i]
             IN row["Total_People"] > 0 =>
                   ExactAggregateRow(row, GradeModuleRows(row["Grade"], row["EntityDesc"]))
    /\ (result.op = "calculate_grade_comparisons" /\ result.value # <<>>) =>
          /\ \A i \in 1..Len(result.value.grade_summary) :
                LET row == result.value.grade_summary[i]
                IN row["Total_People"] > 0 => ExactAggregateRow(row, GradeRows(row["Grade"]))
          /\ \A i \in 1..Len(result.value.component_summary) :
                LET row == result.value.component_summary[i]
                IN row["Total_People"] > 0 =>
                      ExactAggregateRow(row, ComponentRows(row["Component"]))

AllFinite(row, suffix) ==
    \A c \in DemographicsOf(row, suffix) : IsFinite(row[c \o suffix])

\* C10: a group whose summed Total is 0 is in no percentage-bearing output
\* (percentages, trends, grade comparisons, representation-gap rows, heatmap
\* rows), no division by zero happens while the dataset is processed (every
\* reported percentage is a finite number and no call ends in a
\* ZeroDivisionError), calculate_module_totals still lists the group with
\* Total People 0, and calculate_diversity_metrics returns no indices when the
\* total is 0.
C10_ZeroTotalGroups ==
    /\ result.op = "calculate_demographic_percentages" =>
          \A i \in 1..Len(result.value) :
             /\ result.value[i]["EntityDesc"] \in NonZeroModules
             /\ AllFinite(result.value[i], "")
    /\ result.op = "calculate_demographic_trends" =>
          \A i \in 1..Len(result.value) :
             LET row == result.value[i]
             IN /\ Sum(GradeModuleRows(row["Grade"], row["EntityDesc"]), "TOTAL") # 0
                /\ AllFinite(row, "_Percentage")
    /\ (result.op = "calculate_grade_comparisons" /\ result.value # <<>>) =>
          /\ \A i \in 1..Len(result.value.grade_summary) :
                LET row == result.value.grade_summary[i]
                IN Sum(GradeRows(row["Grade"]), "TOTAL") # 0 /\ AllFinite(row, "_Percentage")
          /\ \A i \in 1..Len(result.value.component_summary) :
                LET row == result.value.component_summary[i]
                IN /\ Sum(ComponentRows(row["Component"]), "TOTAL") # 0
                   /\ AllFinite(row, "_Percentage")
    /\ result.op = "detect_representation_gaps" =>
          IF result.value.raised THEN result.value.error # "ZeroDivisionError"
          ELSE \A i \in 1..Len(result.value.value) :
                  /\ result.value.value[i].Module \in NonZeroModules
                  /\ IsFinite(result.value.value[i].Gap_Range)
    /\ (/\ result.op \in {"create_aligned_heatmap", "create_improved_heatmap"}
        /\ result.value.kind = "heatmap") =>
          /\ Len(result.value.y) = Cardinality(NonZeroModules)
          /\ \A i \in 1..Len(result.value.z) : \A j \in 1..Len(result.value.z[i]) :
                /\ result.value.customdata[i][j].entity \in NonZeroModules
                /\ IsFinite(result.value.z[i][j])
    /\ result.op = "calculate_module_totals" =>
          \A r \in 1..Len(data_processor.df.rows) :
             LET e == Cell(data_processor.df, r, "EntityDesc")
                 g == Cell(data_processor.df, r, "Grade")
             IN \E i \in 1..Len(result.value) :
                   /\ result.value[i]["EntityDesc"] = e
                   /\ result.value[i]["Grade"] = g
                   /\ result.value[i]["Total People"] = RInt(Sum(GradeModuleRows(g, e), "TOTAL"))
    /\ (result.op = "calculate_diversity_metrics" /\ Sum(data_processor.df, "TOTAL") = 0) =>
          result.value = <<>>

\* a dataset with a zero-total module next to a populated one, whose
\* percentages list the populated module only
C10_Witness ==
    /\ result.op = "calculate_demographic_percentages"
    /\ Modules \ NonZeroModules # {}
    /\ Len(result.value) = 1
    /\ result.value[1]["EntityDesc"] \in NonZeroModules

\* the demographic columns of a call that the dataset has: the column keys
ColumnKeys == SelectSeq(result.demographic_cols, LAMBDA c : HasColumn(data_processor.df, c))

\* actual_pct of a demographic in a module, and in the whole dataset
ModuleActual(e, c) == Percentage(Sum(ModuleRows(e), c), Sum(ModuleRows(e), "TOTAL"))

OverallActual(c) == Percentage(Sum(data_processor.df, c), Sum(data_processor.df, "TOTAL"))

\* the lookup order lowercased name, original-case name, 10.0
OrderedTarget(g) ==
    IF lower(g) \in DOMAIN result.targets THEN result.targets[lower(g)]
    ELSE IF g \in DOMAIN result.targets THEN result.targets[g]
    ELSE RInt(10)

StatusClass(status) ==
    IF status \in {"On Target", "on_target"} THEN "on_target"
    ELSE IF status \in {"Over Target", "Over", "over"} THEN "over"
    ELSE "under"

\* a gap record: the reported gap is actual - target, and the status is
\* on_target exactly when |reported gap| <= 2, over above 2, under below -2
GapRecordOk(gap, actual, target, status) ==
    /\ REq(gap, RSub(actual, target))
    /\ StatusClass(status) = (IF RLe(RAbs(gap), RInt(2)) THEN "on_target"
                              ELSE IF RLt(RInt(0), gap) THEN "over" ELSE "under")

\* C3: every gap record of calculate_demographic_gaps,
\* create_executive_summary_report and _create_analysis_json, for a dataset
\* with people in it, reports gap = actual_pct - target_pct exactly and the
\* status on_target exactly when |reported gap| <= 2.0, over when the gap is
\* above 2.0 and under when it is below -2.0.
C3_GapRecords ==
    Sum(data_processor.df, "TOTAL") > 0 =>
        /\ (result.op = "calculate_demographic_gaps" /\ ~result.value.raised) =>
              \A i \in 1..Len(result.value.value) :
                 LET r == result.value.value[i]
                 IN GapRecordOk(r["Gap"], OverallActual(r["Demographic"]),
                                r["Target %"], r["Gap Status"])
        /\ result.op = "create_executive_summary_report" =>
              \A i \in 1..Len(result.value.demo_summary) :
                 LET r == result.value.demo_summary[i]
                 IN GapRecordOk(r.Gap, OverallActual(r.Demographic),
                                OrderedTarget(r.Demographic), r.Status)
        /\ result.op = "_create_analysis_json" =>
              \A c \in DOMAIN result.value.demographic_analysis :
                 LET r == result.value.demographic_analysis[c]
                 IN GapRecordOk(r.gap, OverallActual(c), r.target_percentage, r.status)

\* C8: generate_equity_scorecard, detect_representation_gaps,
\* create_aligned_heatmap and calculate_demographic_gaps use, for a group g,
\* the target configured under the lowercased name of g if there is one, else
\* the one configured under the name of g as written, else 10.0.
C8_TargetLookupOrder ==
    /\ result.op = "generate_equity_scorecard" =>
          \A c \in DOMAIN result.value.demographic_scores :
             REq(result.value.demographic_scores[c].target, OrderedTarget(c))
    /\ (result.op = "detect_representation_gaps" /\ ~result.value.raised) =>
          \A i \in 1..Len(result.value.value) :
             LET r == result.value.value[i]
                 gap(c) == RSub(ModuleActual(r.Module, c), OrderedTarget(c))
             IN /\ REq(r.Largest_Overrep.gap, Round1(gap(r.Largest_Overrep.demo)))
                /\ REq(r.Largest_Underrep.gap, Round1(gap(r.Largest_Underrep.demo)))
                /\ REq(r.Gap_Range,
                       RSub(gap(r.Largest_Overrep.demo), gap(r.Largest_Underrep.demo)))
    /\ (result.op = "create_aligned_heatmap" /\ result.value.kind = "heatmap") =>
          \A i \in 1..Len(result.value.z) : \A j \in 1..Len(result.value.z[i]) :
             LET t == result.value.customdata[i][j]
             IN /\ REq(t.target, Round1(OrderedTarget(t.demographic)))
                /\ REq(result.value.z[i][j],
                       RSub(ModuleActual(t.entity, t.demographic),
                            OrderedTarget(t.demographic)))
    /\ (result.op = "calculate_demographic_gaps" /\ ~result.value.raised) =>
          \A i \in 1..Len(result.value.value) :
             REq(result.value.value[i]["Target %"],
                 OrderedTarget(result.value.value[i]["Demographic"]))

\* the targets configured for g under any letter case
ConfiguredFor(g) == {k \in DOMAIN result.targets : lower(k) = lower(g)}

\* the target of g resolved without regard to case, then through the default
\* table, then as 10.0
CaseInsensitiveTarget(g, used) ==
    IF ConfiguredFor(g) # {} THEN \E k \in ConfiguredFor(g) : REq(used, result.targets[k])
    ELSE IF lower(g) \in DOMAIN get_default_demographic_targets
         THEN REq(used, get_default_demographic_targets[lower(g)])
    ELSE REq(used, RInt(10))

\* C9: the target used for a group is the one configured under its name in any
\* letter case; for a group with no configured target it is the value of the
\* built-in default table for the name compared without regard to case, and
\* 10.0 only when the table has no entry.
C9_DefaultTableFallback ==
    /\ result.op = "generate_equity_scorecard" =>
          \A c \in DOMAIN result.value.demographic_scores :
             CaseInsensitiveTarget(c, result.value.demographic_scores[c].target)
    /\ (result.op = "calculate_demographic_gaps" /\ ~result.value.raised) =>
          \A i \in 1..Len(result.value.value) :
             CaseInsensitiveTarget(result.value.value[i]["Demographic"],
                                   result.value.value[i]["Target %"])
    /\ result.op = "_create_analysis_json" =>
          \A c \in DOMAIN result.value.demographic_analysis :
             CaseInsensitiveTarget(c, result.value.demographic_analysis[c].target_percentage)

\* a percentage that short-circuited to 0%
ZeroPercent(a) == IsFinite(a) /\ a.n = 0

\* C11: a dataset-wide percentage computation over a dataset whose summed
\* Total is 0 (generate_equity_scorecard, create_benchmark_comparison_chart,
\* analyze_demographic_gaps, create_recommendations_report) gives 0% for each
\* demographic, does not raise, and yields no NaN or infinite percentage, gap
\* or score.
C11_DivisionGuard ==
    (/\ result.op \in {"generate_equity_scorecard", "create_benchmark_comparison_chart",
                       "analyze_demographic_gaps", "create_recommendations_report"}
     /\ Sum(data_processor.df, "TOTAL") = 0
     /\ Len(ColumnKeys) > 0) =>
        /\ result.op = "generate_equity_scorecard" =>
              \A c \in DOMAIN result.value.demographic_scores :
                 LET d == result.value.demographic_scores[c]
                 IN ZeroPercent(d.actual) /\ IsFinite(d.gap) /\ IsFinite(d.score)
        /\ result.op = "create_benchmark_comparison_chart" =>
              /\ ~result.value.raised
              /\ \A i \in 1..Len(result.value.value.Actual) :
                    /\ ZeroPercent(result.value.value.Actual[i])
                    /\ IsFinite(result.value.value.Gap[i])
        /\ result.op = "analyze_demographic_gaps" =>
              /\ ~result.value.raised
              /\ \A c \in DOMAIN result.value.value.demographics :
                    /\ ZeroPercent(result.value.value.demographics[c].actual_percentage)
                    /\ IsFinite(result.value.value.demographics[c].gap)
        /\ result.op = "create_recommendations_report" =>
              /\ ~result.value.raised
              /\ \A i \in 1..Len(result.value.value) :
                    "points" \in DOMAIN result.value.value[i] =>
                        IsFinite(result.value.value[i].points)


\* the operations whose result is a frame built by sort_values, which may raise
FrameOps == {"calculate_demographic_gaps", "detect_representation_gaps",
             "create_detailed_module_report"}

\* C12: an analytic operation (calculate_demographic_gaps, calculate_demographic_percentages,
\* calculate_demographic_trends, detect_representation_gaps, create_detailed_module_report,
\* calculate_module_totals) given a dataset with zero records returns an empty
\* result and does not raise.
C12_EmptyDataset ==
    (/\ result.op \in FrameOps \cup {"calculate_demographic_percentages",
                                     "calculate_demographic_trends",
                                     "calculate_module_totals"}
     /\ IsEmpty(data_processor.df)) =>
        IF result.op \in FrameOps
        THEN ~result.value.raised /\ result.value.value = <<>>
        ELSE result.value = <<>>


\* the value an operation has over the scope that filters select from the
\* canonical table fresh
FreshValue(fresh, scope, op) ==
    CASE op = "apply_filters" -> scope
      [] op = "calculate_module_totals" -> calculate_module_totals(scope)
      [] op = "calculate_demographic_trends" -> calculate_demographic_trends(fresh, scope)
      [] op = "calculate_demographic_gaps" ->
            calculate_demographic_gaps(fresh, scope,
                ConfiguredTargets(get_demographic_columns(fresh), <<>>))
      [] op = "calculate_diversity_metrics" -> calculate_diversity_metrics(fresh, scope)
      [] op = "create_aligned_heatmap" ->
            create_aligned_heatmap(scope, get_demographic_columns(fresh),
                ConfiguredTargets(get_demographic_columns(fresh), <<>>))

\* C13: after any sequence of apply_filters, aggregation, gap, diversity and
\* heatmap calls the processor's canonical dataset and the caller's input table
\* are what they were after loading, and an operation on a filtered scope
\* returns the value it has on first use, whatever calls came before it.
C13_NoHiddenState ==
    /\ data = uploaded_file
    /\ \E fresh \in {DataProcessor(uploaded_file)} :
          /\ data_processor = fresh
          /\ result.op # "none" =>
                \E scope \in {filter_loop(fresh.df, result.filters, 1)} :
                    result.value = FreshValue(fresh, scope, result.op)

\* a narrowing filter has been applied and the processor still holds every row
C13_Witness ==
    /\ result.op = "calculate_demographic_trends"
    /\ Len(data_processor.df.rows) = 2
    /\ Len(apply_filters(data_processor, result.filters).value.rows) = 1
    /\ Len(result.value) = 1


\* max(0, 100 - 5 * |gap|) as a number: 0 from |gap| = 20 on, positive below
LinearPenalty(score, gap) ==
    IF RLe(RInt(20), RAbs(gap))
    THEN REq(score, RInt(0))
    ELSE /\ REq(score, RSub(RInt(100), RMul(RInt(5), RAbs(gap))))
         /\ RLt(RInt(0), score)
         /\ RLt(RAbs(gap), RInt(20))

\* C14: every per-demographic score of generate_equity_scorecard is
\* max(0, 100 - 5 * |gap|) with gap = actual_pct - target_pct, lies in [0, 100]
\* and is 0 exactly when |gap| >= 20; the overall score is the arithmetic mean
\* of the per-demographic scores, and 0 when no demographic is present.
C14_ScoreFormula ==
    result.op = "generate_equity_scorecard" =>
        /\ \A c \in Range(ColumnKeys) :
              \E d \in {result.value.demographic_scores[c]} :
                 /\ REq(d.actual, OverallActual(c))
                 /\ REq(d.gap, RSub(d.actual, d.target))
                 /\ LinearPenalty(d.score, d.gap)
                 /\ RLe(RInt(0), d.score) /\ RLe(d.score, RInt(100))
        /\ IF Len(ColumnKeys) = 0
           THEN REq(result.value.overall_score, RInt(0))
           ELSE REq(result.value.overall_score,
                    RDiv(RSum([i \in 1..Len(ColumnKeys) |->
                                 result.value.demographic_scores[ColumnKeys[i]].score]),
                         RInt(Len(ColumnKeys))))


\* the gap of a demographic of the scorecard call: its exact share of the
\* dataset minus the target the scorecard reports for it
ScorecardGap(c) == RSub(OverallActual(c), result.value.demographic_scores[c].target)

\* the demographics of the call whose |gap| exceeds 10, in list order
Advised == SelectSeq(ColumnKeys, LAMBDA c : RLt(RInt(10), RAbs(ScorecardGap(c))))

\* the recommendations are those of the advised demographics, in order, in the
\* form their side of the target asks for, with X the given number of tenths
\* (rounded) or |gap| itself
RecommendationsFor(rounded) ==
    LET recs == result.value.recommendations
    IN /\ Len(recs) = Len(Advised)
       /\ \A k \in 1..Len(recs) :
             \E gap \in {ScorecardGap(Advised[k])} :
                /\ recs[k].demo = Advised[k]
                /\ recs[k].advice = "Increase" <=> RLt(gap, RInt(0))
                /\ recs[k].advice = "Consider balancing" <=> RLt(RInt(0), gap)
                /\ recs[k].points = (IF rounded THEN Round1(RAbs(gap)) ELSE RAbs(gap))

\* C15 as stated: one recommendation per demographic with |gap| > 10 and none
\* for the others, 'increase' exactly when under and 'consider balancing'
\* exactly when over target, in demographic-list order, with X = |gap|.
C15_Original ==
    result.op = "generate_equity_scorecard" => RecommendationsFor(FALSE)

\* C15: generate_equity_scorecard emits exactly one recommendation for each
\* demographic whose |gap| > 10 and none for |gap| <= 10, in the 'increase'
\* form exactly when the demographic is under target and the 'consider
\* balancing' form exactly when it is over, in demographic-list order, with X
\* the value of |gap| rounded to one decimal place.
C15_Recommendations ==
    result.op = "generate_equity_scorecard" => RecommendationsFor(TRUE)

\* the first demographic is within 10 points and skipped, the second is advised
C15_Witness ==
    /\ result.op = "generate_equity_scorecard"
    /\ Len(ColumnKeys) = 2
    /\ Len(result.value.recommendations) = 1
    /\ result.value.recommendations[1].demo = ColumnKeys[2]
    /\ result.value.recommendations[1].advice = "Increase"
    /\ \E c \in Range(ColumnKeys) : RLe(RAbs(ScorecardGap(c)), RInt(10))


\* the gap of demographic c in module e under the targets of the call
ModuleGap(e, c) == RSub(ModuleActual(e, c), OrderedTarget(c))

\* the modules whose summed Total is positive
PositiveModules == {e \in Modules : Sum(ModuleRows(e), "TOTAL") > 0}

LogPrimes == {2, 3, 5, 7}

\* ln(q) lies strictly between lo / 10000 and hi / 10000
LnBounds ==
    (2 :> [lo |-> 6931, hi |-> 6932]) @@ (3 :> [lo |-> 10986, hi |-> 10987]) @@
    (5 :> [lo |-> 16094, hi |-> 16095]) @@ (7 :> [lo |-> 19459, hi |-> 19460])

\* the exponent of the prime q in n > 0
RECURSIVE Valuation(_, _)
Valuation(q, n) == IF n % q # 0 THEN 0 ELSE 1 + Valuation(q, n \div q)

\* every proportion is a quotient of numbers whose primes are in LogPrimes
RECURSIVE Smooth(_)
Smooth(n) ==
    IF n = 1 THEN TRUE
    ELSE \E q \in LogPrimes : n % q = 0 /\ Smooth(n \div q)

LogCoef(proportions, q) ==
    RSum([i \in 1..Len(proportions) |->
            RMul(RNeg(proportions[i]),
                 RInt(Valuation(q, proportions[i].n) - Valuation(q, proportions[i].d)))])

ShannonCoefs(shannon) == [q \in LogPrimes |-> LogCoef(shannon.proportions, q)]

\* a lower and an upper bound of the index
ShannonBound(shannon, below) ==
    LET coef == ShannonCoefs(shannon)
        term == [k \in 1..4 |->
                   LET q == CHOOSE x \in LogPrimes : Cardinality({y \in LogPrimes : y < x}) = k - 1
                       toward == IF RLt(coef[q], RInt(0)) THEN ~below ELSE below
                   IN RMul(coef[q], Rat(IF toward THEN LnBounds[q].lo ELSE LnBounds[q].hi, 10000))]
    IN RSum(term)

\* the bounds decide the index only for proportions over LogPrimes
Decidable(shannon) ==
    \A i \in 1..Len(shannon.proportions) :
        Smooth(shannon.proportions[i].n) /\ Smooth(shannon.proportions[i].d)

ShannonIsZero(shannon) ==
    Decidable(shannon) /\ \A q \in LogPrimes : REq(ShannonCoefs(shannon)[q], RInt(0))

ShannonIsNegative(shannon) ==
    Decidable(shannon) /\ RLt(ShannonBound(shannon, FALSE), RInt(0))

ShannonIsPositive(shannon) ==
    Decidable(shannon) /\ RLt(RInt(0), ShannonBound(shannon, TRUE))

\* the demographic counts of the analysed dataset
DatasetCounts == count_series(data_processor.df, get_demographic_columns(data_processor))

\* C17: for a dataset with Total > 0 and at least one demographic with a
\* nonzero count, the simpson_diversity_index of calculate_diversity_metrics
\* is 1 - sum (count_i / total)^2 and lies in [0, 1).
C17_SimpsonRange ==
    (/\ result.op = "calculate_diversity_metrics"
     /\ Sum(data_processor.df, "TOTAL") > 0
     /\ \E i \in 1..Len(DatasetCounts) : DatasetCounts[i] # 0) =>
        /\ "simpson_diversity_index" \in DOMAIN result.value
        /\ \E simpson \in {result.value["simpson_diversity_index"]} :
              /\ REq(simpson,
                     RSub(RInt(1),
                          RSum([i \in 1..Len(DatasetCounts) |->
                                  Rat(DatasetCounts[i] * DatasetCounts[i],
                                      Sum(data_processor.df, "TOTAL") *
                                      Sum(data_processor.df, "TOTAL"))])))
              /\ RLe(RInt(0), simpson)
              /\ RLt(simpson, RInt(1))


\* C18: when exactly one demographic has a nonzero count in the analysed
\* dataset and Total > 0, the shannon_diversity_index of
\* calculate_diversity_metrics is 0; the index it returns is never negative.
C18_ShannonSingleGroup ==
    (/\ result.op = "calculate_diversity_metrics"
     /\ "shannon_diversity_index" \in DOMAIN result.value) =>
        \E shannon \in {result.value["shannon_diversity_index"]} :
           /\ ShannonIsZero(shannon) \/ ShannonIsPositive(shannon)
           /\ (/\ Sum(data_processor.df, "TOTAL") > 0
               /\ Cardinality({i \in 1..Len(DatasetCounts) : DatasetCounts[i] # 0}) = 1)
                 => ShannonIsZero(shannon)


ShannonEqual(a, b) ==
    /\ Decidable(a) /\ Decidable(b)
    /\ \A q \in LogPrimes : REq(ShannonCoefs(a)[q], ShannonCoefs(b)[q])

\* C19: for the same total and demographic counts,
\* DataProcessor.calculate_diversity_metrics and
\* AdvancedDemographicAnalytics.calculate_diversity_index return the same
\* Simpson and the same Shannon value.
C19_DiversityReconciles ==
    result.op \in {"calculate_diversity_metrics", "calculate_diversity_index"} =>
        \E metrics \in {IF result.op = "calculate_diversity_metrics" THEN result.value
                        ELSE calculate_diversity_metrics(data_processor, data_processor.df)},
           index \in {IF result.op = "calculate_diversity_index" THEN result.value
                      ELSE calculate_diversity_index(DatasetCounts)} :
           "simpson_diversity_index" \in DOMAIN metrics =>
              /\ REq(metrics["simpson_diversity_index"], index["simpson"])
              /\ ShannonEqual(metrics["shannon_diversity_index"], index["shannon"])


\* the part of a module title a row key can show: its first 40 characters
Shown(e) == SubSeq(e, 1, IF Len(e) < 40 THEN Len(e) ELSE 40)

\* C20: in the figure of create_aligned_heatmap the row-key list has exactly
\* one entry per module with Total # 0, each identifying its module, distinct
\* modules having distinct row keys; the column-key list is the supplied
\* demographic list: same length, same order, one distinct key per demographic.
C20_HeatmapKeys ==
    (/\ result.op = "create_aligned_heatmap"
     /\ result.value.kind = "heatmap") =>
        /\ Len(result.value.y) = Cardinality(NonZeroModules)
        /\ \A e \in NonZeroModules :
              Cardinality({i \in 1..Len(result.value.y) :
                  /\ Len(result.value.y[i]) >= Len(Shown(e))
                  /\ SubSeq(result.value.y[i], 1, Len(Shown(e))) = Shown(e)}) = 1
        /\ \A i, j \in 1..Len(result.value.y) : i # j => result.value.y[i] # result.value.y[j]
        /\ Len(result.value.x) = Len(result.demographic_cols)
        /\ \A j \in 1..Len(result.value.x) :
              j <= Len(result.demographic_cols) =>
                 result.value.x[j] \in {result.demographic_cols[j],
                                        aligned_abbrev(result.demographic_cols[j])}
        /\ \A i, j \in 1..Len(result.value.x) : i # j => result.value.x[i] # result.value.x[j]


\* C21: create_aligned_heatmap, create_improved_heatmap and create_heatmap
\* return an explicit 'no data' figure, never a heatmap, when the dataset is
\* empty, the demographic list is empty, or the dataset has none of the
\* requested demographic columns.
C21_NoDataSentinel ==
    (/\ result.op \in {"create_aligned_heatmap", "create_improved_heatmap", "create_heatmap"}
     /\ \/ IsEmpty(data_processor.df)
        \/ Len(result.demographic_cols) = 0
        \/ Len(ColumnKeys) = 0) =>
        result.value.kind = "annotation"


\* C22: when schema normalization fails, the error names every canonical
\* field that could not be mapped, lists all raw column names, and for each
\* missing field lists the field's full list of searched variants.
C22_MappingErrorContent ==
    event.outcome = "schema_error" =>
        LET cols == uploaded_file.cols
            low == [i \in 1..Len(cols) |-> strip(lower(cols[i]))]
            unmapped == {f \in Range(RequiredCols) : ~HasExact(low, f) /\ ~HasSubstring(low, f)}
        IN /\ Range(event.error.missing) = unmapped
           /\ Len(event.error.missing) = Cardinality(unmapped)
           /\ event.error.available = cols
           /\ DOMAIN event.error.suggestions = unmapped
           /\ \A f \in unmapped : event.error.suggestions[f] = column_mappings[f]


\* the number a Total cell of a text column stands for, when it stands for one
NumericMeaning ==
    (Text("12") :> 12) @@ (Text(" 7 ") :> 7) @@ (Text("-3") :> -3) @@ (Text("+5") :> 5)

\* the Total value expected for raw cell c of column i of table t
ExpectedTotal(t, i, c) ==
    IF is_object_dtype(t, i)
    THEN (IF c \in DOMAIN NumericMeaning THEN NumericMeaning[c] ELSE 0)
    ELSE c

\* C23: on successful normalization every Total value is numeric: a cell that
\* is non-numeric, unparseable or missing becomes 0, a parseable cell keeps its
\* numeric value, and no content of a Total cell makes the load fail.
C23_TotalCoercion ==
    event.handler = "upload" =>
        /\ event.outcome = "ok"
        /\ \E i \in {ColIndex(data_processor.df.cols, "TOTAL")} :
               /\ i > 0
               /\ \A r \in 1..Len(uploaded_file.rows) :
                      /\ data_processor.df.rows[r][i] \in Int
                      /\ data_processor.df.rows[r][i] =
                             ExpectedTotal(uploaded_file, i, uploaded_file.rows[r][i])

C23_Witness ==
    /\ event.handler = "upload" /\ event.outcome = "ok"
    /\ is_object_dtype(uploaded_file, 5)
    /\ Len(uploaded_file.rows) = 2
    /\ uploaded_file.rows[1][5] = Text("n/a")
    /\ uploaded_file.rows[2][5] = Text(" 7 ")
    /\ data_processor.df.rows[1][5] = 0
    /\ data_processor.df.rows[2][5] = 7

\* C24: after normalization every record has total >= 0 and every demographic
\* count >= 0, whatever numbers, negative ones included, the raw input held.
C24_NonNegativeCounts ==
    (event.handler = "upload" /\ event.outcome = "ok") =>
        \A r \in 1..Len(data_processor.df.rows) :
            /\ data_processor.df.rows[r][ColIndex(data_processor.df.cols, "TOTAL")] >= 0
            /\ \A k \in 1..Len(get_demographic_columns(data_processor)) :
                   data_processor.df.rows[r][ColIndex(data_processor.df.cols,
                       get_demographic_columns(data_processor)[k])] >= 0


(***************************************************************************)
(* DataHealthChecker (data_health_checker.py 6-217). A finding is a record  *)
(* of its kind and of the values its text prints; a check returns the       *)
(* findings it appends to the three lists.                                  *)
(***************************************************************************)
isna(c) == "nan" \in DOMAIN c

Findings(critical, warning, info) == [critical |-> critical, warning |-> warning, info |-> info]

NoFindings == Findings(<<>>, <<>>, <<>>)

Extend(a, b) ==
    Findings(a.critical \o b.critical, a.warning \o b.warning, a.info \o b.info)

\* seq[:n]
FirstN(seq, n) == SubSeq(seq, 1, IF Len(seq) < n THEN Len(seq) ELSE n)

\* [col for col in demographic_cols if col in self.df.columns]
PresentCols(df, demographic_cols) == SelectSeq(demographic_cols, LAMBDA c : HasColumn(df, c))

check_required_columns(df) ==
    \* lines 44-50
    IF SelectSeq(<<"EntityDesc", "Grade", "TOTAL">>, LAMBDA c : ~HasColumn(df, c)) # <<>>
    THEN Findings(<<[kind |-> "missing_required",
                     cols |-> SelectSeq(<<"EntityDesc", "Grade", "TOTAL">>,
                                        LAMBDA c : ~HasColumn(df, c))]>>, <<>>, <<>>)
    ELSE Findings(<<>>, <<>>, <<[kind |-> "required_present"]>>)

\* demo_count > 0 and demo_count < (total_people * 0.01)
Sparse(df, c) ==
    Sum(df, c) > 0 /\ RLt(RInt(Sum(df, c)), RDiv(RInt(Sum(df, "TOTAL")), RInt(100)))

check_demographic_data_quality(df, demographic_cols) ==
    \* lines 58-89
    IF demographic_cols = <<>>
    THEN Findings(<<>>, <<[kind |-> "no_demographics"]>>, <<>>)
    ELSE Findings(
           <<>>,
           IF SelectSeq(PresentCols(df, demographic_cols), LAMBDA c : Sum(df, c) = 0) # <<>>
           THEN <<[kind |-> "zero_demographics",
                   cols |-> SelectSeq(PresentCols(df, demographic_cols),
                                      LAMBDA c : Sum(df, c) = 0)]>>
           ELSE <<>>,
           <<[kind |-> "found_demographics", n |-> Len(demographic_cols),
              cols |-> FirstN(demographic_cols, 5)]>>
           \o (IF Len(demographic_cols) > 5
               THEN <<[kind |-> "more_demographics", n |-> Len(demographic_cols) - 5]>>
               ELSE <<>>)
           \o (IF HasColumn(df, "TOTAL")
                  /\ SelectSeq(PresentCols(df, demographic_cols),
                               LAMBDA c : Sparse(df, c)) # <<>>
               THEN <<[kind |-> "sparse_demographics",
                       cols |-> SelectSeq(PresentCols(df, demographic_cols),
                                          LAMBDA c : Sparse(df, c))]>>
               ELSE <<>>))

\* sum(row.get(col, 0) for col in demographic_cols if col in self.df.columns)
RECURSIVE demo_sum(_, _, _, _)
demo_sum(df, r, cols, k) ==
    IF k > Len(cols) THEN 0 ELSE Cell(df, r, cols[k]) + demo_sum(df, r, cols, k + 1)

\* the loop of lines 106-115 from row r on
RECURSIVE inconsistent_rows(_, _, _)
inconsistent_rows(df, cols, r) ==
    IF r > Len(df.rows) THEN <<>>
    ELSE (IF demo_sum(df, r, cols, 1) > Cell(df, r, "TOTAL") /\ Cell(df, r, "TOTAL") > 0
          THEN <<[kind |-> "over_attribution", row |-> r,
                  demo_sum |-> demo_sum(df, r, cols, 1), total |-> Cell(df, r, "TOTAL")]>>
          ELSE <<>>) \o inconsistent_rows(df, cols, r + 1)

RECURSIVE missing_attribution_rows(_, _, _)
missing_attribution_rows(df, cols, r) ==
    IF r > Len(df.rows) THEN <<>>
    ELSE (IF /\ ~(demo_sum(df, r, cols, 1) > Cell(df, r, "TOTAL") /\ Cell(df, r, "TOTAL") > 0)
             /\ demo_sum(df, r, cols, 1) < Cell(df, r, "TOTAL") /\ Cell(df, r, "TOTAL") > 0
             /\ RLt(RDiv(RInt(Cell(df, r, "TOTAL")), RInt(10)),
                    RInt(Cell(df, r, "TOTAL") - demo_sum(df, r, cols, 1)))
          THEN <<[kind |-> "under_attribution", row |-> r,
                  gap |-> Cell(df, r, "TOTAL") - demo_sum(df, r, cols, 1)]>>
          ELSE <<>>) \o missing_attribution_rows(df, cols, r + 1)

\* lines 117-125: the first five over-attributed rows go to self.issues, the
\* first three under-attributed ones to self.warnings
report_rows(over, under) ==
    Findings(FirstN(over, 5)
             \o (IF Len(over) > 5
                 THEN <<[kind |-> "over_attribution_more", n |-> Len(over) - 5]>>
                 ELSE <<>>),
             FirstN(under, 3)
             \o (IF Len(under) > 3
                 THEN <<[kind |-> "under_attribution_more", n |-> Len(under) - 3]>>
                 ELSE <<>>),
             <<>>)

check_total_consistency(df, demographic_cols) ==
    \* lines 93-125
    IF ~HasColumn(df, "TOTAL") \/ demographic_cols = <<>> THEN NoFindings
    ELSE report_rows(inconsistent_rows(df, PresentCols(df, demographic_cols), 1),
                     missing_attribution_rows(df, PresentCols(df, demographic_cols), 1))

\* self.df[col].isna().sum()
missing_count(df, col) ==
    Len(SelectSeq(df.rows, LAMBDA row : isna(row[ColIndex(df.cols, col)])))

check_missing_values(df) ==
    \* lines 129-135
    Findings(<<>>,
             [k \in 1..Len(SelectSeq(<<"EntityDesc", "Grade">>,
                               LAMBDA c : HasColumn(df, c) /\ missing_count(df, c) > 0)) |->
                 [kind |-> "missing_values",
                  col |-> SelectSeq(<<"EntityDesc", "Grade">>,
                              LAMBDA c : HasColumn(df, c) /\ missing_count(df, c) > 0)[k],
                  n |-> missing_count(df, SelectSeq(<<"EntityDesc", "Grade">>,
                              LAMBDA c : HasColumn(df, c) /\ missing_count(df, c) > 0)[k])]],
             <<>>)

\* the distinct cells of a column that are not missing: Series.nunique() and
\* the keys of groupby both leave NaN out
Present(df, col) == SelectSeq(unique(df, col), LAMBDA c : ~isna(c))

\* module_totals[module_totals < 10]
small_modules(df) ==
    SelectSeq(Present(df, "EntityDesc"),
              LAMBDA m : SumRows(SelectSeq(df.rows,
                                     LAMBDA row : row[ColIndex(df.cols, "EntityDesc")] = m),
                                 ColIndex(df.cols, "TOTAL"), 1) < 10)

check_data_completeness(df) ==
    \* lines 139-154
    Findings(<<>>,
             IF HasColumn(df, "TOTAL") /\ HasColumn(df, "EntityDesc")
                /\ Len(small_modules(df)) > 0
             THEN <<[kind |-> "small_modules", n |-> Len(small_modules(df))]>>
             ELSE <<>>,
             <<[kind |-> "dataset_size", rows |-> Len(df.rows),
                modules |-> IF HasColumn(df, "EntityDesc")
                            THEN Len(Present(df, "EntityDesc")) ELSE 0,
                grades |-> IF HasColumn(df, "Grade") THEN Len(Present(df, "Grade")) ELSE 0]>>
             \o (IF HasColumn(df, "TOTAL")
                 THEN <<[kind |-> "total_people", n |-> Sum(df, "TOTAL")]>>
                 ELSE <<>>))

\* (demo_count / total_people) * 100
share(df, c) == RMul(RDiv(RInt(Sum(df, c)), RInt(Sum(df, "TOTAL"))), RInt(100))

check_demographic_distribution(df, demographic_cols) ==
    \* lines 162-185
    IF demographic_cols = <<>> \/ ~HasColumn(df, "TOTAL") THEN NoFindings
    ELSE IF Sum(df, "TOTAL") = 0 THEN NoFindings
    ELSE Findings(<<>>, <<>>,
           (IF SelectSeq(PresentCols(df, demographic_cols),
                         LAMBDA c : RLt(RInt(50), share(df, c))) # <<>>
            THEN <<[kind |-> "dominant",
                    cols |-> SelectSeq(PresentCols(df, demographic_cols),
                                       LAMBDA c : RLt(RInt(50), share(df, c)))]>>
            ELSE <<>>)
           \o (IF SelectSeq(PresentCols(df, demographic_cols),
                            LAMBDA c : RLt(RInt(0), share(df, c))
                                       /\ RLt(share(df, c), RInt(5))) # <<>>
               THEN <<[kind |-> "underrepresented",
                       cols |-> SelectSeq(PresentCols(df, demographic_cols),
                                          LAMBDA c : RLt(RInt(0), share(df, c))
                                                     /\ RLt(share(df, c), RInt(5)))]>>
               ELSE <<>>))

\* DataHealthChecker(df).run_comprehensive_check(): DataProcessor(self.df) is
\* built by the second check, and its ValueError leaves the call
run_comprehensive_check(df) ==
    IF DataProcessor(df).raised
    THEN [raised |-> TRUE, error |-> DataProcessor(df).error]
    ELSE The({[raised |-> FALSE,
               value |-> Extend(check_required_columns(df),
                         Extend(check_demographic_data_quality(df, demographic_cols),
                         Extend(check_total_consistency(df, demographic_cols),
                         Extend(check_missing_values(df),
                         Extend(check_data_completeness(df),
                                check_demographic_distribution(df, demographic_cols))))))] :
              demographic_cols \in {get_demographic_columns(DataProcessor(df))}})

\* display_health_check_results(results): False exactly when a critical
\* finding is listed
display_health_check_results(results) == results.critical = <<>>

\* tables given to the health check: descriptor columns of dtype object, then
\* TOTAL and two demographic counts
HealthHeader == <<"Grade", "EntityDesc", "Component Desc", "TOTAL", "AAM", "Hispanic">>

HealthDtypes == <<"object", "object", "object", "int64", "int64", "int64">>

\* TOTAL, AAM, Hispanic of a row: attributed in full, over-attributed,
\* half unattributed, a tenth unattributed, and the same with a zero total
HealthCounts == {<<10, 5, 5>>, <<10, 8, 4>>, <<10, 3, 2>>, <<10, 5, 4>>, <<0, 2, 0>>, <<0, 0, 0>>}

HealthRow(g, c) == <<g, Text("Lesson A"), Text("Video")>> \o c

Repeat(row, n) == [r \in 1..n |-> row]

HealthTables ==
    {[cols |-> HealthHeader, dtypes |-> HealthDtypes, rows |-> rows] :
        rows \in UNION {[1..n -> {HealthRow(Text("K"), c) : c \in HealthCounts}] :
                           n \in 1..MaxLoadRows}} \cup
    {[cols |-> HealthHeader, dtypes |-> HealthDtypes, rows |-> rows] :
        rows \in {Repeat(HealthRow(Text("K"), <<10, 8, 4>>), 6),
                  Repeat(HealthRow(Text("K"), <<10, 3, 2>>), 4),
                  Repeat(HealthRow(Text("K"), <<0, 2, 0>>), 6),
                  <<HealthRow(NaNCell, <<10, 8, 4>>)>>}} \cup
    {[cols |-> <<"Grade", "EntityDesc", "Component Desc", "Total", "AAM", "Hispanic">>,
      dtypes |-> HealthDtypes, rows |-> <<HealthRow(Text("K"), <<10, 8, 4>>)>>],
     [cols |-> <<"Grade", "EntityDesc", "Component Desc", "TOTAL">>,
      dtypes |-> <<"object", "object", "object", "int64">>,
      rows |-> <<<<Text("K"), Text("Lesson A"), Text("Video"), 10>>>>]}

InitHealth ==
    /\ uploaded_file \in HealthTables
    /\ data = None
    /\ data_processor = None
    /\ event = NoEvent
    /\ result = NoResult

\* DataHealthChecker(df).run_comprehensive_check() on the loaded table, then
\* display_health_check_results on what it returned
RunComprehensiveCheck ==
    /\ CanCall
    /\ \E call \in {run_comprehensive_check(data)} :
           result' = IF call.raised
                     THEN [op |-> "run_comprehensive_check", raised |-> TRUE]
                     ELSE [op |-> "run_comprehensive_check", raised |-> FALSE,
                           value |-> call.value,
                           usable |-> display_health_check_results(call.value)]
    /\ UNCHANGED <<data, data_processor, uploaded_file, event>>

NextHealth ==
    \/ Rerun
    \/ RunComprehensiveCheck
    \/ EndRun

SpecHealth == InitHealth /\ [][NextHealth]_vars

\* rows of the checked table whose demographic counts sum to more than TOTAL
OverRows ==
    {r \in 1..Len(data.rows) : Cell(data, r, "AAM") + Cell(data, r, "Hispanic") > Cell(data, r, "TOTAL")}

\* rows whose unattributed remainder exceeds a tenth of TOTAL
UnderRows ==
    {r \in 1..Len(data.rows) :
        10 * (Cell(data, r, "TOTAL") - Cell(data, r, "AAM") - Cell(data, r, "Hispanic"))
            > Cell(data, r, "TOTAL")}

\* the rows a list of findings names one by one, and the number it sums up
Listed(findings, kind) ==
    {findings[k].row : k \in {j \in 1..Len(findings) : findings[j].kind = kind}}

More(findings, kind) ==
    IF \E k \in 1..Len(findings) : findings[k].kind = kind
    THEN findings[CHOOSE k \in 1..Len(findings) : findings[k].kind = kind].n
    ELSE 0

AllFindings == result.value.critical \o result.value.warning \o result.value.info

HealthChecked ==
    /\ result.op = "run_comprehensive_check"
    /\ ~result.raised
    /\ data.cols = HealthHeader

\* C25: the total-consistency check reports over-attribution for every record
\* whose demographic counts sum to more than its Total and under-attribution
\* for every record whose unattributed remainder exceeds 10% of its Total,
\* each listed one by one or counted in the '...and N more' line, and reports
\* neither for any other record.
C25_ConsistencyFindings ==
    HealthChecked =>
        /\ Listed(AllFindings, "over_attribution") \subseteq OverRows
        /\ Cardinality(Listed(AllFindings, "over_attribution"))
               + More(AllFindings, "over_attribution_more") = Cardinality(OverRows)
        /\ Listed(AllFindings, "under_attribution") \subseteq UnderRows
        /\ Cardinality(Listed(AllFindings, "under_attribution"))
               + More(AllFindings, "under_attribution_more") = Cardinality(UnderRows)

\* findings of the critical list other than the inconsistent-sum ones
OtherCritical ==
    SelectSeq(result.value.critical,
              LAMBDA f : f.kind \notin {"over_attribution", "over_attribution_more"})

\* C26: inconsistent-sum findings are advisory: an over-attributed record is
\* reported in the warning list, never in the critical list, and alone it
\* never makes display_health_check_results return False.
C26_AdvisoryOnly ==
    (result.op = "run_comprehensive_check" /\ ~result.raised) =>
        /\ OtherCritical = result.value.critical
        /\ (OtherCritical = <<>> => result.usable)


\* the orders in which the items of a dictionary can be listed
Orders(filters) ==
    {[i \in 1..Len(filters) |-> filters[f[i]]] :
        f \in {g \in [1..Len(filters) -> 1..Len(filters)] :
                  \A a, b \in 1..Len(filters) : a # b => g[a] # g[b]}}

\* row satisfies every filter that names a column of df and selects something
Keeps(df, row, filters) ==
    \A i \in 1..Len(filters) :
        (InSeq(filters[i][1], df.cols) /\ filters[i][2] # <<>>) =>
            row[ColIndex(df.cols, filters[i][1])] \in Range(filters[i][2])

\* C27: apply_filters returns exactly the records, in their original order and
\* each once, whose value for every filtered field is among the selected
\* values; an empty selection or a filter on an absent column constrains
\* nothing; the result does not depend on the order of the filters.
C27_FilterConjunction ==
    result.op = "apply_filters" =>
        /\ result.value.cols = data_processor.df.cols
        /\ result.value.rows =
               SelectSeq(data_processor.df.rows,
                         LAMBDA row : Keeps(data_processor.df, row, result.filters))
        /\ \A other \in Orders(result.filters) :
               apply_filters(data_processor, other).value = result.value

C27_Witness ==
    /\ result.op = "apply_filters"
    /\ result.filters = <<<<"Grade", <<>>>>, <<"EntityDesc", <<LongModule>>>>,
                          <<"Region", <<"North">>>>>>
    /\ Len(data_processor.df.rows) = 2
    /\ Len(result.value.rows) = 1
    /\ result.value.rows[1] = data_processor.df.rows[2]


\* C28: at the end of every load attempt, in any sequence of uploads and
\* database loads that succeed or fail, the session's data and data_processor
\* are both unset or both set, and when set the processor is the one
\* constructed from that data table.
C28_SessionPair ==
    /\ (data = None) <=> (data_processor = None)
    /\ data # None => (~DataProcessor(data).raised /\ data_processor = DataProcessor(data))

\* a database load has failed over a session loaded from an upload
C28_Witness ==
    /\ event.handler = "load_dataset"
    /\ event.outcome = "schema_error"
    /\ data # None
    /\ data_processor = DataProcessor(data)


(***************************************************************************)
(* The two module risk classifications (advanced_analytics.py 32-67,       *)
(* export_enhancements.py 86-133), over datasets whose rows may hold a      *)
(* negative Total                                                           *)
(***************************************************************************)
RiskRows ==
    {<<"Gr. 1", e, "Read", c[1], c[2], t>> :
        e \in {"Lesson A", LongModule}, c \in AnalysisCounts, t \in {-3, 0, 3}}

RiskTables ==
    {[cols |-> AnalysisHeader, rows |-> r] :
        r \in UNION {[1..n -> RiskRows] : n \in 0..MaxRows}}

InitRisk ==
    \E t \in RiskTables : \E c \in {Construct(t)} :
        /\ uploaded_file = t
        /\ data = t
        /\ data_processor = c.proc
        /\ event = [handler |-> "upload", outcome |-> "ok", mapped |-> c.mapped]
        /\ result = NoResult

NextRisk ==
    \/ \E demographic_cols \in Selections, targets \in TargetConfigs :
          \/ DetectRepresentationGaps(demographic_cols, targets)
          \/ CreateDetailedModuleReport(demographic_cols, targets)
    \/ EndRun

SpecRisk == InitRisk /\ [][NextRisk]_vars

\* C29: for the same dataset, demographic list and targets, every module that
\* detect_representation_gaps reports with Gap_Range > 30 is labelled
\* Equity_Risk = 'High' by create_detailed_module_report.
C29_HighRiskAgrees ==
    (result.op = "detect_representation_gaps" /\ ~result.value.raised) =>
        \E report \in {create_detailed_module_report(filtered_data, result.demographic_cols,
                                                     result.targets)} :
            \A i \in 1..Len(result.value.value) :
                RLt(RInt(30), result.value.value[i].Gap_Range) =>
                    /\ ~report.raised
                    /\ \E j \in 1..Len(report.value) :
                          /\ report.value[j].Module_Name = result.value.value[i].Module
                          /\ report.value[j].Equity_Risk = "High"


(***************************************************************************)
(* Persistence (database.py 84-158, 196-219; app.py 164-174, 222-234). A    *)
(* stored record is [grade, entity_desc, component_desc, total,             *)
(* demographic_data, row_index]; demographic_data lists its items in key    *)
(* order, its values are floats.                                            *)
(***************************************************************************)
demographic_patterns ==
    <<"AAM", "AAF", "PCM", "PCF", "LGBTF", "LGBTM", "OTHER_M", "OTHER_F",
      "WM", "WF", "HM", "HF", "AM", "AF", "NAM", "NAF">>

\* the test of lines 142-144 on column col
stored_demographic(col) ==
    /\ \/ InSeq(upper(col), demographic_patterns)
       \/ \E pattern \in {"_M", "_F", "MALE", "FEMALE"} : Contains(upper(col), pattern)
    /\ col # "TOTAL"

\* row.get(name, default) on row r of df
row_get(df, r, name, default) == IF HasColumn(df, name) THEN Cell(df, r, name) ELSE default

\* _save_data_records: one DataRecord per row of df
save_data_records(df) ==
    [r \in 1..Len(df.rows) |->
        [grade          |-> row_get(df, r, "Grade", ""),
         entity_desc    |-> row_get(df, r, "EntityDesc", ""),
         component_desc |-> row_get(df, r, "Component Desc", ""),
         total          |-> row_get(df, r, "TOTAL", 0),
         demographic_data |->
             [k \in 1..Len(SelectSeq(df.cols, stored_demographic)) |->
                 <<SelectSeq(df.cols, stored_demographic)[k],
                   RInt(Cell(df, r, SelectSeq(df.cols, stored_demographic)[k]))>>],
         row_index      |-> r - 1]]

\* load_dataset_data on the records a query returned
load_dataset_data(records) ==
    IF Len(records) = 0 THEN EmptyDataFrame
    ELSE [cols |-> <<"Grade", "EntityDesc", "Component Desc", "TOTAL">>
                   \o [k \in 1..Len(records[1].demographic_data) |->
                          records[1].demographic_data[k][1]],
          rows |-> [r \in 1..Len(records) |->
                      <<records[r].grade, records[r].entity_desc,
                        records[r].component_desc, records[r].total>>
                      \o [k \in 1..Len(records[r].demographic_data) |->
                             records[r].demographic_data[k][2]]]]

\* uploads to be saved: canonical and raw column names, demographic columns
\* of both pattern lists
PersistHeaders ==
    {<<"Grade", "EntityDesc", "Component Desc", "AAM", "TOTAL">>,
     <<"Grade", "EntityDesc", "Component Desc", "Hispanic", "TOTAL">>,
     <<"Grade", "EntityDesc", "Component Desc", "other_m", "LGBTM", "TOTAL">>,
     <<"Level", "Lesson Title", "Activity", "AAM", "People">>}

PersistRow(h, e, c, t) ==
    [i \in 1..Len(h) |-> IF i = 1 THEN "Gr. 1" ELSE IF i = 2 THEN e
                         ELSE IF i = 3 THEN "Read" ELSE IF i = Len(h) THEN t ELSE c]

\* the tables with header h: each row names one of two modules, holds a count
\* of 0 or 2 in every demographic column and a total of 4
PersistRows(h) == {PersistRow(h, e, c, 4) : e \in {"Lesson A", LongModule}, c \in {0, 2}}

PersistTables ==
    UNION {{[cols |-> h, rows |-> rows] :
               rows \in UNION {[1..n -> PersistRows(h)] : n \in 1..MaxLoadRows}} :
           h \in PersistHeaders}

InitPersist ==
    /\ uploaded_file \in PersistTables
    /\ data = None
    /\ data_processor = None
    /\ event = NoEvent
    /\ result = NoResult

\* "Save Dataset" (app.py 222-234): db_manager.save_dataset(df_preview, ...)
SaveDataset ==
    /\ CanCall
    /\ uploaded_file # None
    /\ result' = [op |-> "save_dataset", records |-> save_data_records(uploaded_file)]
    /\ UNCHANGED <<data, data_processor, uploaded_file, event>>

\* "Load Dataset" on the dataset just saved (app.py 164-174); the query has no
\* ORDER BY, so the records come back in any order
LoadSavedDataset ==
    /\ result.op = "save_dataset"
    /\ \E records \in Orders(result.records) :
          /\ DbLoadHandler("load_dataset", load_dataset_data(records))
          /\ result' = [op |-> "load_dataset_data", records |-> records,
                        value |-> load_dataset_data(records)]
    /\ UNCHANGED uploaded_file

NextPersist ==
    \/ Rerun
    \/ SaveDataset
    \/ LoadSavedDataset
    \/ EndRun

SpecPersist == InitPersist /\ [][NextPersist]_vars

\* the canonical table of the upload that was saved
Original == DataProcessor(uploaded_file)

\* C30: saving an accepted dataset and loading it back yields as many records,
\* with the same Grade, Module, Component and Total in each, and the
\* demographic columns get_demographic_columns finds on the original, with
\* the same counts.
C30_PersistenceRoundTrip ==
    result.op = "load_dataset_data" =>
        \E re \in {result.value} :
            /\ Len(re.rows) = Len(Original.df.rows)
            /\ \A r \in 1..Len(re.rows) :
                  \E o \in {result.records[r].row_index + 1} :
                     /\ \A f \in {"Grade", "EntityDesc", "Component Desc", "TOTAL"} :
                           Cell(re, r, f) = Cell(Original.df, o, f)
                     /\ \A c \in Range(get_demographic_columns(Original)) :
                           /\ HasColumn(re, c)
                           /\ REq(Cell(re, r, c), RInt(Cell(Original.df, o, c)))
            /\ ~DataProcessor(re).raised
            /\ Range(get_demographic_columns(DataProcessor(re)))
                   = Range(get_demographic_columns(Original))

====
